---- MODULE Spec2Model ----
(***************************************************************************)
(* The incremental documentation cache of src/doc/auto_document.py:        *)
(* build_documentation walks a source tree, summarises every file, every   *)
(* directory and the codebase with an LLM, and reuses the summaries whose  *)
(* content digest is unchanged since the cache was last saved;             *)
(* update_documentation writes the resulting text to docs.md.  Spec is the *)
(* build over a changing source tree; SpecLib calls the functions of the   *)
(* module on their own; SpecTools calls the file tools of src/tools;       *)
(* FairSpec is builds one after the other on a fixed tree, each running to *)
(* its end; SpecConc is two builds side by side on one cache file;         *)
(* SpecDoc is auto_doc of src/doc/__init__.py with the docstring updater   *)
(* of src/doc/auto_docstring.py; FairThread is one call of run_thread of   *)
(* src/utils/openai_utils.py.                                              *)
(***************************************************************************)
EXTENDS Integers, Sequences, FiniteSets, TLC

(***************************************************************************)
(* Bounds of the model.                                                    *)
(***************************************************************************)
\* runs of build_documentation in one behaviour
MaxRuns == 2

\* CHUNK_SIZE, in tokens
CHUNK_SIZE == 32000

(***************************************************************************)
(* The source tree.  A path maps to 0 (no such file) or to the identifier  *)
(* of its content.                                                         *)
(***************************************************************************)
Paths == {"D/A.py", "D/B.py", "D/sub/C.py", "D/.git/X.py"}

Dirs == {"D", "D/sub", "D/.git"}

\* root_dir, the directory build_documentation is called on
root_dir == "D"

\* the files the environment adds, edits and deletes; the file under .git
\* is there from the start and stays as it is
Editable == {"D/A.py", "D/B.py", "D/sub/C.py"}

\* cfg.exclude_dirs: the directory names the walk does not descend into
exclude_dirs == {".git"}

\* the contents a file may hold: 1 is a long module that parses, 2 a short
\* text that is a syntax error
Contents == {1, 2}

\* os.path.dirname of a path of the tree
Parent(p) ==
    CASE p = "D/sub/C.py" -> "D/sub"
      [] p = "D/.git/X.py" -> "D/.git"
      [] OTHER -> "D"

\* the name of a directory of the tree within its parent, and that parent:
\* every directory of the tree but the root is a child of the root
basename(d) ==
    CASE d = "D/sub" -> "sub"
      [] d = "D/.git" -> ".git"
      [] OTHER -> "D"

dirname(d) == "D"

\* the order in which os.walk (top-down) yields the directories, and the
\* order in which it lists the files of one directory
WalkOrder == <<"D", "D/.git", "D/sub">>

Listing == <<"D/A.py", "D/B.py", "D/sub/C.py", "D/.git/X.py">>

\* the key under which the model names the codebase record
CODEBASE == "<codebase>"

VARIABLES
    fs,                   \* the source tree: Paths -> {0} \cup Contents
    disk,                 \* the cache file: [kind, cache]
    pc,                   \* position in build_documentation
    cache,                \* the cache dict held by the running build
    use_ast,              \* the parameter of the running build
    file_sums,            \* file_sums of the directory being processed
    directory_summaries,  \* directory_summaries
    runs,                 \* builds started so far
    outcome,              \* how the last finished build ended
    llmCalls,             \* llm.prompt calls of the current build
    summaryCalls,         \* the entities the build asked a summary for
    chunked,              \* the current build summarised an oversized text
    step,                 \* what the last entity step of the build did
    visits,               \* how often the current build came to each entity
    disk0,                \* the cache file when the current build started
    prevOk,               \* the build before the current one succeeded
    fsPrev,               \* the source tree that build ran on
    call,                 \* the library call under examination
    procs,                \* the builds running side by side: [pc, root, cache]
    ad,                   \* auto_doc: the files, the two cache files, its position
    doc                   \* docs.md: its text and the build that wrote it

vars == <<fs, disk, pc, cache, use_ast, file_sums, directory_summaries, runs,
          outcome, llmCalls, summaryCalls, chunked, step, visits, disk0,
          prevOk, fsPrev, call, procs, ad, doc>>

(***************************************************************************)
(* Digests.  A hex digest is a sequence of integers; sha256 is modelled as *)
(* collision-free: it wraps its input between two marks, so that distinct  *)
(* inputs have distinct digests, and the digest of a concatenation of      *)
(* digests determines the digests concatenated.                            *)
(***************************************************************************)
Sha256(bytes) == <<-1>> \o bytes \o <<-2>>

\* the bytes of a file holding content c
Bytes(c) == <<c>>

\* compute_sha256 of a readable file holding content c
compute_sha256(c) == Sha256(Bytes(c))

RECURSIVE Join(_)
\* "".join(hashes)
Join(hashes) ==
    IF hashes = <<>> THEN <<>> ELSE Head(hashes) \o Join(Tail(hashes))

RECURSIVE Dedup(_)
\* the list s without its repeated members
Dedup(s) ==
    IF s = <<>> THEN <<>>
    ELSE IF \E i \in 2..Len(s) : s[i] = Head(s) THEN Dedup(Tail(s))
    ELSE <<Head(s)>> \o Dedup(Tail(s))

\* faulty variant: the digests are combined as a set
combine_hashes_Set(hashes) == Sha256(Join(Dedup(hashes)))

\* combine_hashes: hashes the concatenation, in the order given
combine_hashes(hashes) == Sha256(Join(hashes))

RECURSIVE StrLess(_, _)
\* a < b on strings (lexicographic)
StrLess(a, b) ==
    IF a = <<>> THEN b # <<>>
    ELSE IF b = <<>> THEN FALSE
    ELSE IF Head(a) # Head(b) THEN Head(a) < Head(b)
    ELSE StrLess(Tail(a), Tail(b))

RECURSIVE Insert(_, _)
Insert(x, s) ==
    IF s = <<>> THEN <<x>>
    ELSE IF StrLess(x, Head(s)) THEN <<x>> \o s
    ELSE <<Head(s)>> \o Insert(x, Tail(s))

RECURSIVE sorted(_)
\* sorted(list) of strings
sorted(s) == IF s = <<>> THEN <<>> ELSE Insert(Head(s), sorted(Tail(s)))

(***************************************************************************)
(* The cache.                                                              *)
(***************************************************************************)
\* dict.get(key) of a key the dict does not hold
NoEntry == [hash |-> <<>>, summary |-> 0]

NoDirEntry == [dir_hash |-> <<>>, summary |-> 0]

\* {"files": {}, "directories": {}, "codebase": {}}
EmptyCache ==
    [files |-> [p \in Paths |-> NoEntry],
     directories |-> [d \in Dirs |-> NoDirEntry],
     codebase |-> NoEntry]

NoFile == [kind |-> "absent", cache |-> EmptyCache]

(***************************************************************************)
(* Texts and the Summarizer.  A text is modelled by its token count.       *)
(***************************************************************************)
\* ast.parse succeeds on the content
SyntaxOK(c) == c # 2

\* count_tokens of the content of a file
FileTokens(c) ==
    CASE c = 1 -> 40000 [] c = 2 -> 400 [] c = 3 -> 400 [] OTHER -> 0

\* ast_parse_file on a file of content c: the facts of the module ("info"),
\* the error dict of a SyntaxError ("error"), or an exception of ast.parse
\* that is not a SyntaxError (MemoryError or RecursionError on a source
\* nested too deep), which leaves ast_parse_file ("raises")
ast_parse_file(c) ==
    CASE c = 2 -> "error"
      [] c = 3 -> "raises"
      [] OTHER -> "info"

\* llm.prompt answers with an opaque text: the code never looks into it, it
\* only stores it, returns it and counts its tokens.  The answer is modelled
\* by the number of the build that asked for it, so that a regenerated
\* summary differs from every stored one.
Answer(run) == run

\* count_tokens of an answer: the answers of the first build are short,
\* those of the later builds long enough for two of them to be oversized
SummaryTokens(s) == CASE s = 0 -> 0 [] s = 1 -> 300 [] OTHER -> 20000

\* count_tokens of "FILE: {fp}\nSUMMARY:\n{summary}\n" and of the DIR: form
PartTokens(s) == 10 + SummaryTokens(s)

\* the number of chunks chunk_text yields for a text of n tokens
NumChunks(n) == (n + CHUNK_SIZE - 1) \div CHUNK_SIZE

\* faulty variant: a text of exactly CHUNK_SIZE tokens is chunked too
Oversized_AtThreshold(n) == n >= CHUNK_SIZE

\* summarize_large_text takes the chunked branch
Oversized(n) == ~(n <= CHUNK_SIZE)

\* llm.prompt calls of summarize_large_text on a text of n tokens
LargeTextCalls(n) == IF Oversized(n) THEN NumChunks(n) + 1 ELSE 1

\* get_file_summary summarises the raw text instead of the AST facts
RawText(ast, c) == ~ast \/ ~SyntaxOK(c) \/ FileTokens(c) = 0

\* llm.prompt calls get_file_summary makes to regenerate a file of content c
FileCalls(ast, c) == IF RawText(ast, c) THEN LargeTextCalls(FileTokens(c)) ELSE 1

(***************************************************************************)
(* The walk of build_documentation and the position of its loops.          *)
(***************************************************************************)
\* faulty variant: the files of the nested directory count as files of D
PyFiles_Transitive(tree, d) ==
    {p \in Paths : /\ tree[p] # 0
                   /\ \/ Parent(p) = d
                      \/ d = root_dir /\ Parent(p) = "D/sub"}

\* the .py files os.walk finds in directory d
PyFiles(tree, d) == {p \in Paths : Parent(p) = d /\ tree[p] # 0}

\* faulty variant: the walk descends into every directory
Walked_NoPruning(d) == d \in Dirs

\* os.walk yields directory d: the root, or a directory that line 238 kept
\* in dirnames when its parent was yielded
Walked(d) ==
    \/ d = root_dir
    \/ basename(d) \notin exclude_dirs /\ dirname(d) = root_dir

\* dir_to_files: the walked directories holding at least one .py file
dir_to_files(tree) == {d \in Dirs : Walked(d) /\ PyFiles(tree, d) # {}}

\* first element of sequence s that lies in set S, or "" when none does
First(s, S) ==
    IF \E i \in 1..Len(s) : s[i] \in S
    THEN s[CHOOSE i \in 1..Len(s) : s[i] \in S /\ \A j \in 1..(i - 1) : s[j] \notin S]
    ELSE ""

\* the directory the outer loop is at
CurDir ==
    First(WalkOrder, {d \in dir_to_files(fs) : directory_summaries[d] = 0})

\* faulty variant: a file stays in the work list after its summary is taken
CurFile_Again == First(Listing, PyFiles(fs, CurDir))

\* faulty variant: the inner loop over the files of a directory is skipped
CurFile_None == ""

\* the file the inner loop is at
CurFile ==
    First(Listing, {p \in PyFiles(fs, CurDir) : file_sums[p] = 0})

\* the sequence s restricted to the members of S
RECURSIVE Restrict(_, _)
Restrict(s, S) ==
    IF s = <<>> THEN <<>>
    ELSE IF Head(s) \in S THEN <<Head(s)>> \o Restrict(Tail(s), S)
    ELSE Restrict(Tail(s), S)

RECURSIVE SumTokens(_, _)
\* token count of the parts built from the summaries sums[k], k in keys
SumTokens(keys, sums) ==
    IF keys = <<>> THEN 0
    ELSE PartTokens(sums[Head(keys)]) + SumTokens(Tail(keys), sums)

(***************************************************************************)
(* What one step of the build did.                                         *)
(***************************************************************************)
LOAD == "<load_cache>"

NoStep == [key |-> "", fresh |-> FALSE, calls |-> 0, ret |-> 0, old |-> 0,
           failed |-> FALSE]

Reused(k, s) == [key |-> k, fresh |-> TRUE, calls |-> 0, ret |-> s, old |-> s,
                 failed |-> FALSE]

Regenerated(k, n, s, o) == [key |-> k, fresh |-> FALSE, calls |-> n, ret |-> s,
                            old |-> o, failed |-> FALSE]

Raised(k, n, o) == [key |-> k, fresh |-> FALSE, calls |-> n, ret |-> 0,
                    old |-> o, failed |-> TRUE]

\* docs.md does not exist
NoDoc == [text |-> 0, run |-> 0]

\* the processes that may call build_documentation side by side
Procs == {1, 2}

\* no build runs beside the one under examination
NoProcs == [r \in Procs |-> [pc |-> "idle", root |-> "", cache |-> EmptyCache]]

\* auto_doc is not under examination
NoAutoDoc == [pc |-> "off"]

\* no library call is under examination
NoCall == [fn |-> "", pc |-> "idle"]

(***************************************************************************)
(* Initial state: some source tree, no cache file, no build running.       *)
(***************************************************************************)
NoSums == [p \in Paths |-> 0]

\* the build has come to no file, no directory and not to the codebase step
NoVisits == [e \in Paths \cup Dirs \cup {CODEBASE} |-> 0]

\* the loop of the build comes to entity e
Visit(v, e) == [v EXCEPT ![e] = @ + 1]

NoDirSums == [d \in Dirs |-> 0]

Init ==
    /\ fs \in {tree \in [Paths -> {0} \cup Contents] : tree["D/.git/X.py"] = 1}
    /\ disk = NoFile
    /\ pc = "idle"
    /\ cache = EmptyCache
    /\ use_ast = TRUE
    /\ file_sums = NoSums
    /\ directory_summaries = NoDirSums
    /\ runs = 0
    /\ outcome = "none"
    /\ llmCalls = 0
    /\ summaryCalls = <<>>
    /\ chunked = FALSE
    /\ step = NoStep
    /\ visits = NoVisits
    /\ disk0 = NoFile
    /\ prevOk = FALSE
    /\ fsPrev = NoSums
    /\ call = NoCall
    /\ procs = NoProcs
    /\ ad = NoAutoDoc
    /\ doc = NoDoc

(***************************************************************************)
(* The environment, between builds.  Changes after the last build of the   *)
(* behaviour are left out: no build would observe them.                    *)
(***************************************************************************)
envUnchanged ==
    /\ runs < MaxRuns
    /\ UNCHANGED <<ad, procs, call, doc, pc, cache, use_ast, file_sums, directory_summaries, runs,
                   outcome, llmCalls, summaryCalls, chunked, step, visits,
                   disk0, prevOk, fsPrev>>

\* the content of an existing file is edited
EditFile(p, c) ==
    /\ pc = "idle"
    /\ fs[p] # 0 /\ c # fs[p]
    /\ fs' = [fs EXCEPT ![p] = c]
    /\ UNCHANGED disk
    /\ envUnchanged

\* a file is added to the tree
AddFile(p, c) ==
    /\ pc = "idle"
    /\ fs[p] = 0
    /\ fs' = [fs EXCEPT ![p] = c]
    /\ UNCHANGED disk
    /\ envUnchanged

\* a file is deleted from the tree
RemoveFile(p) ==
    /\ pc = "idle"
    /\ fs[p] # 0
    /\ fs' = [fs EXCEPT ![p] = 0]
    /\ UNCHANGED disk
    /\ envUnchanged

\* the cache file is left unparsable (a write cut short, a manual edit)
CorruptCacheFile ==
    /\ pc = "idle"
    /\ disk.kind = "json"
    /\ disk' = [kind |-> "corrupt", cache |-> EmptyCache]
    /\ UNCHANGED fs
    /\ envUnchanged

(***************************************************************************)
(* build_documentation.                                                    *)
(***************************************************************************)
\* faulty variant: the exception is caught and the entity is tried again
Abort_Retry(s) ==
    /\ pc' = pc
    /\ outcome' = outcome
    /\ step' = s
    /\ UNCHANGED <<ad, procs, call, doc, fs, disk, use_ast, file_sums, directory_summaries, runs,
                   disk0, prevOk, fsPrev>>

\* an exception leaves build_documentation: save_cache is not reached
Abort(s) ==
    /\ pc' = "done"
    /\ outcome' = "error"
    /\ step' = s
    /\ UNCHANGED <<ad, procs, call, doc, fs, disk, use_ast, file_sums, directory_summaries, runs,
                   disk0, prevOk, fsPrev>>

\* load_cache raises on a file json.load cannot parse
LoadRaises(d) == d.kind = "corrupt"

\* load_cache, when it returns
load_cache(d) == IF d.kind = "json" THEN d.cache ELSE EmptyCache

\* build_documentation is called: lines 232-241
RunStart(ast) ==
    /\ pc = "idle"
    /\ runs < MaxRuns
    /\ runs' = runs + 1
    /\ disk0' = disk
    /\ visits' = NoVisits
    /\ llmCalls' = 0
    /\ summaryCalls' = <<>>
    /\ chunked' = FALSE
    /\ use_ast' = ast
    /\ file_sums' = NoSums
    /\ directory_summaries' = NoDirSums
    /\ IF LoadRaises(disk)
       THEN /\ pc' = "done"
            /\ outcome' = "error"
            /\ step' = Raised(LOAD, 0, 0)
            /\ cache' = EmptyCache
       ELSE /\ pc' = "loop"
            /\ outcome' = "running"
            /\ step' = NoStep
            /\ cache' = load_cache(disk)
    /\ UNCHANGED <<ad, procs, call, doc, fs, disk, prevOk, fsPrev>>

\* faulty variant: the new summary is stored under the old digest
PutFile_KeepHash(c, f, h, s) == [c EXCEPT !.files[f].summary = s]

\* cache["files"][filepath] = {"hash": file_hash, "summary": summary}
PutFile(c, f, h, s) == [c EXCEPT !.files[f] = [hash |-> h, summary |-> s]]

\* faulty variant: summarize_directory returns its summary without storing
\* a record for the directory
PutDir_NoRecord(c, d, h, s) == c

\* cache["directories"][dir_path] = {"dir_hash": dir_hash, "summary": ...}
PutDir(c, d, h, s) ==
    [c EXCEPT !.directories[d] = [dir_hash |-> h, summary |-> s]]

\* cache["codebase"]["hash"] = ...; cache["codebase"]["summary"] = ...
PutCodebase(c, h, s) == [c EXCEPT !.codebase = [hash |-> h, summary |-> s]]

\* faulty variant: any stored record is reused, whatever its hash
FileHit_AnyRecord(cached_entry, file_hash) == cached_entry # NoEntry

\* get_file_summary reuses the cached summary
FileHit(cached_entry, file_hash) ==
    cached_entry # NoEntry /\ cached_entry.hash = file_hash

\* faulty variant: the stored digest is read under a key the record lacks
DirHit_WrongKey(cached_entry, dir_hash) == FALSE

\* faulty variant: a stored directory record is reused, whatever its digest
DirHit_AnyRecord(cached_entry, dir_hash) == cached_entry # NoDirEntry

\* summarize_directory reuses the cached summary
DirHit(cached_entry, dir_hash) ==
    cached_entry # NoDirEntry /\ cached_entry.dir_hash = dir_hash

\* faulty variant: the stored digest is read under a key the record lacks
CodebaseHit_WrongKey(codebase, codebase_hash) == FALSE

\* faulty variant: the stored codebase record is reused, whatever its digest
CodebaseHit_AnyRecord(codebase, codebase_hash) == codebase.hash # <<>>

\* build_documentation reuses the cached codebase summary
CodebaseHit(codebase, codebase_hash) ==
    codebase.hash # <<>> /\ codebase.hash = codebase_hash

\* faulty variant: the hashes are combined in listing order, unsorted
DirHash_Unsorted(c, keys) ==
    combine_hashes([i \in 1..Len(keys) |-> c.files[keys[i]].hash])

\* faulty variant: the digest covers every file record of the cache
DirHash_AllRecords(c, keys) ==
    LET all == Restrict(Listing, {p \in Paths : c.files[p] # NoEntry})
    IN combine_hashes(sorted([i \in 1..Len(all) |-> c.files[all[i]].hash]))

\* the hashes summarize_directory combines: those of the file records of
\* the keys of file_summaries, sorted
DirHash(c, keys) ==
    combine_hashes(sorted([i \in 1..Len(keys) |-> c.files[keys[i]].hash]))

\* the hashes build_documentation combines: those of the directory records
\* of the keys of directory_summaries, sorted
CodebaseHash(c, keys) ==
    combine_hashes(sorted([i \in 1..Len(keys) |-> c.directories[keys[i]].dir_hash]))

\* faulty variant: the record is stored before the LLM is asked
FileCache_StoredFirst(c, f, h) == PutFile(c, f, h, 0)

\* the cache dict after the LLM raised while get_file_summary regenerated f
FileCacheOnRaise(c, f, h) == c

\* the cache dict after the LLM raised in summarize_directory
DirCacheOnRaise(c, d, h) == c

\* faulty variant: the records of files that left the tree are purged
save_cache_Purged(c) ==
    [kind |-> "json",
     cache |-> [c EXCEPT !.files =
                    [p \in Paths |-> IF fs[p] = 0 THEN NoEntry
                                     ELSE c.files[p]]]]

\* the cache file after save_cache(cache)
save_cache(c) == [kind |-> "json", cache |-> c]

\* compute_sha256 raises: the file cannot be read
FileReadFails ==
    /\ pc = "loop"
    /\ CurFile # ""
    /\ visits' = Visit(visits, CurFile)
    /\ Abort(Raised(CurFile, 0, cache.files[CurFile].summary))
    /\ UNCHANGED <<cache, llmCalls, summaryCalls, chunked>>

\* get_file_summary(llm, fpath, cache, use_ast) returns: lines 157-191
GetFileSummary ==
    /\ pc = "loop"
    /\ CurFile # ""
    /\ visits' = Visit(visits, CurFile)
    /\ LET f == CurFile
           file_hash == compute_sha256(fs[f])
           cached_entry == cache.files[f]
           n == FileCalls(use_ast, fs[f])
       IN IF FileHit(cached_entry, file_hash)
          THEN /\ file_sums' = [file_sums EXCEPT ![f] = cached_entry.summary]
               /\ step' = Reused(f, cached_entry.summary)
               /\ UNCHANGED <<cache, llmCalls, summaryCalls, chunked>>
          ELSE LET summary == Answer(runs) IN
               /\ cache' = PutFile(cache, f, file_hash, summary)
               /\ file_sums' = [file_sums EXCEPT ![f] = summary]
               /\ llmCalls' = llmCalls + n
               /\ summaryCalls' = Append(summaryCalls, f)
               /\ chunked' = (chunked \/ n > 1)
               /\ step' = Regenerated(f, n, summary, cached_entry.summary)
    /\ UNCHANGED <<ad, procs, call, doc, fs, disk, pc, use_ast, directory_summaries, runs, outcome,
                   disk0, prevOk, fsPrev>>

\* the k-th llm.prompt call of get_file_summary raises
GetFileSummaryRaises ==
    /\ pc = "loop"
    /\ CurFile # ""
    /\ visits' = Visit(visits, CurFile)
    /\ LET f == CurFile
           file_hash == compute_sha256(fs[f])
           cached_entry == cache.files[f]
       IN /\ ~FileHit(cached_entry, file_hash)
          /\ \E k \in 1..FileCalls(use_ast, fs[f]) :
             /\ llmCalls' = llmCalls + k
             /\ Abort(Raised(f, k, cached_entry.summary))
          /\ cache' = FileCacheOnRaise(cache, f, file_hash)
          /\ summaryCalls' = Append(summaryCalls, f)
          /\ chunked' = (chunked \/ FileCalls(use_ast, fs[f]) > 1)

\* summarize_directory(llm, dir_path, file_sums, cache) returns, and the
\* outer loop stores its result: lines 193-223, 250-251
SummarizeDirectory ==
    /\ pc = "loop"
    /\ CurDir # "" /\ CurFile = ""
    /\ visits' = Visit(visits, CurDir)
    /\ LET d == CurDir
           keys == Restrict(Listing, PyFiles(fs, d))
           dir_hash == DirHash(cache, keys)
           cached_entry == cache.directories[d]
           n == LargeTextCalls(SumTokens(keys, file_sums))
       IN IF DirHit(cached_entry, dir_hash)
          THEN /\ directory_summaries' =
                      [directory_summaries EXCEPT ![d] = cached_entry.summary]
               /\ step' = Reused(d, cached_entry.summary)
               /\ UNCHANGED <<cache, llmCalls, summaryCalls, chunked>>
          ELSE LET summary == Answer(runs) IN
               /\ cache' = PutDir(cache, d, dir_hash, summary)
               /\ directory_summaries' =
                      [directory_summaries EXCEPT ![d] = summary]
               /\ llmCalls' = llmCalls + n
               /\ summaryCalls' = Append(summaryCalls, d)
               /\ chunked' = (chunked \/ n > 1)
               /\ step' = Regenerated(d, n, summary, cached_entry.summary)
    /\ file_sums' = NoSums
    /\ UNCHANGED <<ad, procs, call, doc, fs, disk, pc, use_ast, runs, outcome, disk0, prevOk, fsPrev>>

\* the k-th llm.prompt call of summarize_directory raises
SummarizeDirectoryRaises ==
    /\ pc = "loop"
    /\ CurDir # "" /\ CurFile = ""
    /\ visits' = Visit(visits, CurDir)
    /\ LET d == CurDir
           keys == Restrict(Listing, PyFiles(fs, d))
           dir_hash == DirHash(cache, keys)
           cached_entry == cache.directories[d]
           n == LargeTextCalls(SumTokens(keys, file_sums))
       IN /\ ~DirHit(cached_entry, dir_hash)
          /\ \E k \in 1..n :
             /\ llmCalls' = llmCalls + k
             /\ Abort(Raised(d, k, cached_entry.summary))
          /\ cache' = DirCacheOnRaise(cache, d, dir_hash)
          /\ summaryCalls' = Append(summaryCalls, d)
          /\ chunked' = (chunked \/ n > 1)

\* the codebase level and save_cache: lines 253-278
SummarizeCodebase ==
    /\ pc = "loop"
    /\ CurDir = ""
    /\ visits' = Visit(visits, CODEBASE)
    /\ LET keys == Restrict(WalkOrder, dir_to_files(fs))
           codebase_hash == CodebaseHash(cache, keys)
           n == LargeTextCalls(SumTokens(keys, directory_summaries))
       IN IF CodebaseHit(cache.codebase, codebase_hash)
          THEN /\ step' = Reused(CODEBASE, cache.codebase.summary)
               /\ disk' = save_cache(cache)
               /\ UNCHANGED <<cache, llmCalls, summaryCalls, chunked>>
          ELSE LET final_summary == Answer(runs) IN
               /\ cache' = PutCodebase(cache, codebase_hash, final_summary)
               /\ disk' = save_cache(cache')
               /\ llmCalls' = llmCalls + n
               /\ summaryCalls' = Append(summaryCalls, CODEBASE)
               /\ chunked' = (chunked \/ n > 1)
               /\ step' = Regenerated(CODEBASE, n, final_summary,
                                      cache.codebase.summary)
    /\ pc' = "done"
    /\ outcome' = "ok"
    /\ UNCHANGED <<ad, procs, call, doc, fs, use_ast, file_sums, directory_summaries, runs, disk0,
                   prevOk, fsPrev>>

\* the k-th llm.prompt call of the codebase level raises
SummarizeCodebaseRaises ==
    /\ pc = "loop"
    /\ CurDir = ""
    /\ visits' = Visit(visits, CODEBASE)
    /\ LET keys == Restrict(WalkOrder, dir_to_files(fs))
           codebase_hash == CodebaseHash(cache, keys)
           n == LargeTextCalls(SumTokens(keys, directory_summaries))
       IN /\ ~CodebaseHit(cache.codebase, codebase_hash)
          /\ \E k \in 1..n :
             /\ llmCalls' = llmCalls + k
             /\ Abort(Raised(CODEBASE, k, cache.codebase.summary))
          /\ summaryCalls' = Append(summaryCalls, CODEBASE)
          /\ chunked' = (chunked \/ n > 1)
          /\ UNCHANGED cache

\* faulty variant: docs.md is written whether or not the build succeeded
BuildReturned_OrRaised(o) == TRUE

\* build_documentation returned to update_documentation: line 288 is passed
BuildReturned(o) == o = "ok"

\* final_doc, the value build_documentation returned
final_doc == step.ret

\* update_documentation after build_documentation has returned or raised:
\* on a return docs.md is written (lines 289-291); the locals are dropped
Return ==
    /\ pc = "done"
    /\ pc' = "idle"
    /\ prevOk' = (outcome = "ok")
    /\ fsPrev' = fs
    /\ cache' = EmptyCache
    /\ file_sums' = NoSums
    /\ directory_summaries' = NoDirSums
    /\ llmCalls' = 0
    /\ summaryCalls' = <<>>
    /\ chunked' = FALSE
    /\ step' = NoStep
    /\ visits' = NoVisits
    /\ disk0' = disk
    /\ use_ast' = TRUE
    /\ doc' = IF BuildReturned(outcome)
              THEN [text |-> final_doc, run |-> runs]
              ELSE doc
    /\ UNCHANGED <<ad, procs, call, fs, disk, runs, outcome>>

Next ==
    \/ \E p \in Editable, c \in Contents : EditFile(p, c)
    \/ \E p \in Editable, c \in Contents : AddFile(p, c)
    \/ \E p \in Editable : RemoveFile(p)
    \/ CorruptCacheFile
    \/ \E ast \in BOOLEAN : RunStart(ast)
    \/ FileReadFails
    \/ GetFileSummary
    \/ GetFileSummaryRaises
    \/ SummarizeDirectory
    \/ SummarizeDirectoryRaises
    \/ SummarizeCodebase
    \/ SummarizeCodebaseRaises
    \/ Return

Spec == Init /\ [][Next]_vars

\* the steps of a build under way: build_documentation is sequential code,
\* so the statement it is at is executed once the call before it has
\* returned or raised
BuildNext ==
    \/ FileReadFails
    \/ GetFileSummary
    \/ GetFileSummaryRaises
    \/ SummarizeDirectory
    \/ SummarizeDirectoryRaises
    \/ SummarizeCodebase
    \/ SummarizeCodebaseRaises

\* builds called one after the other on a tree that is left alone
RunNext ==
    \/ \E ast \in BOOLEAN : RunStart(ast)
    \/ BuildNext
    \/ Return

\* the builds in which every llm.prompt call returns or raises: a build
\* under way does not stop between two statements
FairSpec == Init /\ [][RunNext]_vars /\ WF_vars(BuildNext)

(***************************************************************************)
(* The functions of auto_document.py taken one at a time: a behaviour of   *)
(* SpecLib calls them on arguments drawn from bounded sets, no build       *)
(* running.                                                                *)
(***************************************************************************)
\* members of a list of digests handed to combine_hashes
MaxHashes == 3

\* two file digests and one directory digest
Digests ==
    {compute_sha256(1), compute_sha256(2), combine_hashes(<<compute_sha256(1)>>)}

HashLists == UNION {[1..n -> Digests] : n \in 0..MaxHashes}

(***************************************************************************)
(* Texts and tokens.  A text is a sequence of runs [x |-> character,       *)
(* n |-> repetitions], adjacent runs holding different characters; a token *)
(* sequence is the same with token numbers for x.  The characters are "a"  *)
(* and "b" (one cl100k_base token each, 1 and 2), "E" (a character of      *)
(* several bytes that the encoding spreads over the two tokens 8 and 9)    *)
(* and "?" (U+FFFD, token 7), which decode puts in place of bytes that are *)
(* not a whole character.                                                  *)
(***************************************************************************)
\* runs of a text handed to chunk_text and summarize_large_text
MaxText == 3

\* the chunk sizes chunk_text is tried with, next to CHUNK_SIZE
MaxChunkSize == 2

\* the run r put after the sequence of runs s
Cat(s, r) ==
    IF r.n = 0 THEN s
    ELSE IF s # <<>> /\ s[Len(s)].x = r.x
    THEN [s EXCEPT ![Len(s)].n = @ + r.n]
    ELSE Append(s, r)

RECURSIVE Concat(_, _)
\* s + t on texts and on token lists
Concat(s, t) == IF t = <<>> THEN s ELSE Concat(Cat(s, Head(t)), Tail(t))

RECURSIVE ConcatAll(_)
\* "".join(texts)
ConcatAll(texts) ==
    IF texts = <<>> THEN <<>>
    ELSE Concat(Head(texts), ConcatAll(Tail(texts)))

RECURSIVE RunsLen(_)
\* len of a token list (of a text: its number of characters)
RunsLen(s) == IF s = <<>> THEN 0 ELSE Head(s).n + RunsLen(Tail(s))

RECURSIVE Take(_, _)
\* s[:k]
Take(s, k) ==
    IF k = 0 \/ s = <<>> THEN <<>>
    ELSE IF Head(s).n <= k
    THEN <<Head(s)>> \o Take(Tail(s), k - Head(s).n)
    ELSE <<[Head(s) EXCEPT !.n = k]>>

RECURSIVE Drop(_, _)
\* s[k:]
Drop(s, k) ==
    IF k = 0 \/ s = <<>> THEN s
    ELSE IF Head(s).n <= k THEN Drop(Tail(s), k - Head(s).n)
    ELSE <<[Head(s) EXCEPT !.n = @ - k]>> \o Tail(s)

\* the token of a character that is one token
TokenOf(x) == CASE x = "a" -> 1 [] x = "b" -> 2 [] OTHER -> 7

CharOf(tok) == CASE tok = 1 -> "a" [] tok = 2 -> "b" [] OTHER -> "?"

RECURSIVE encode(_)
\* enc.encode(text)
encode(text) ==
    IF text = <<>> THEN <<>>
    ELSE LET r == Head(text)
         IN  IF r.x = "E"
             THEN Concat(<<[x |-> 8, n |-> 1], [x |-> 9, n |-> 1]>>,
                         encode(Drop(text, 1)))
             ELSE Concat(<<[x |-> TokenOf(r.x), n |-> r.n]>>,
                         encode(Tail(text)))

RECURSIVE decode(_)
\* enc.decode(tokens): bytes.decode("utf-8", errors="replace")
decode(tokens) ==
    IF tokens = <<>> THEN <<>>
    ELSE LET r == Head(tokens)
             rest == Drop(tokens, 1)
         IN  IF r.x = 8 /\ rest # <<>> /\ Head(rest).x = 9
             THEN Concat(<<[x |-> "E", n |-> 1]>>, decode(Drop(rest, 1)))
             ELSE IF r.x \in {8, 9}
             THEN Concat(<<[x |-> "?", n |-> 1]>>, decode(rest))
             ELSE Concat(<<[x |-> CharOf(r.x), n |-> r.n]>>,
                         decode(Tail(tokens)))

\* count_tokens
count_tokens(text) == RunsLen(encode(text))

\* len(range(0, n, size))
RangeLen(n, size) == (n + size - 1) \div size

\* list(chunk_text(text, chunk_size))
chunk_text(text, chunk_size) ==
    LET tokens == encode(text)
    IN  [k \in 1..RangeLen(RunsLen(tokens), chunk_size) |->
            decode(Take(Drop(tokens, (k - 1) * chunk_size), chunk_size))]

\* the runs the texts are made of: single characters and two long runs
ShortRuns == {[x |-> c, n |-> 1] : c \in {"a", "b", "E"}}

LongRuns == {[x |-> "a", n |-> CHUNK_SIZE], [x |-> "b", n |-> CHUNK_SIZE - 1]}

TextsOf(alphabet) ==
    {Concat(<<>>, s) : s \in UNION {[1..n -> alphabet] : n \in 0..MaxText}}

ShortTexts == TextsOf(ShortRuns)

Texts == TextsOf(ShortRuns \cup LongRuns)

\* the arguments chunk_text is called with
ChunkArgs ==
    (ShortTexts \X (1..MaxChunkSize)) \cup (Texts \X {CHUNK_SIZE})

buildVars == <<fs, disk, pc, cache, use_ast, file_sums, directory_summaries,
               runs, outcome, llmCalls, summaryCalls, chunked, step, visits,
               disk0, prevOk, fsPrev, procs, ad, doc>>

LibInit ==
    /\ fs = NoSums
    /\ disk = NoFile
    /\ pc = "idle"
    /\ cache = EmptyCache
    /\ use_ast = TRUE
    /\ file_sums = NoSums
    /\ directory_summaries = NoDirSums
    /\ runs = 0
    /\ outcome = "none"
    /\ llmCalls = 0
    /\ summaryCalls = <<>>
    /\ chunked = FALSE
    /\ step = NoStep
    /\ visits = NoVisits
    /\ disk0 = NoFile
    /\ prevOk = FALSE
    /\ fsPrev = NoSums
    /\ call = NoCall
    /\ procs = NoProcs
    /\ ad = NoAutoDoc
    /\ doc = NoDoc

\* no library call was made yet: a behaviour examines one call
CallDone == call.pc = "idle"

\* combine_hashes is called on the list xs and on the list ys
CallCombine(xs, ys) ==
    /\ CallDone
    /\ call' = [fn |-> "combine_hashes", pc |-> "returned",
                args |-> <<xs, ys>>,
                ret |-> <<combine_hashes(xs), combine_hashes(ys)>>]
    /\ UNCHANGED buildVars

\* chunk_text is called and run to its end
CallChunkText(text, chunk_size) ==
    /\ CallDone
    /\ call' = [fn |-> "chunk_text", pc |-> "returned",
                args |-> [text |-> text, chunk_size |-> chunk_size],
                ret |-> chunk_text(text, chunk_size)]
    /\ UNCHANGED buildVars

\* the prompts of summarize_large_text, kept as their parts
SinglePrompt(label, text) ==
    [kind |-> "single", label |-> label, body |-> text]

ChunkPrompt(label, idx, chunk) ==
    [kind |-> "chunk", label |-> label, idx |-> idx, body |-> chunk]

CombinePrompt(partial_summaries) ==
    [kind |-> "combine", parts |-> partial_summaries]

\* the summarizers summarize_large_text is tried with: one that returns its
\* prompt and one that returns the same text whatever the prompt
Stubs == {"echo", "fixed"}

\* llm.prompt(prompt)
Respond(llm, prompt) == IF llm = "echo" THEN prompt ELSE [kind |-> "fixed"]

\* faulty variant: the newest partial summary is put first
PrependPart(partial_summaries, summary_part) ==
    <<summary_part>> \o partial_summaries

\* partial_summaries.append(summary_part)
AppendPart(partial_summaries, summary_part) ==
    Append(partial_summaries, summary_part)

\* summarize_large_text is called: lines 124-127
CallSummarize(llm, text) ==
    /\ CallDone
    /\ LET args == [llm |-> llm, text |-> text, chunk_label |-> "text"]
           prompt == SinglePrompt("text", text)
       IN  IF Oversized(count_tokens(text))
           THEN call' = [fn |-> "summarize_large_text", pc |-> "chunks",
                         args |-> args, idx |-> 0,
                         partial_summaries |-> <<>>, prompts |-> <<>>]
           ELSE call' = [fn |-> "summarize_large_text", pc |-> "returned",
                         args |-> args, prompts |-> <<prompt>>,
                         ret |-> Respond(llm, prompt)]
    /\ UNCHANGED buildVars

\* one iteration of the loop over the chunks: lines 127-133
SummarizeChunk ==
    /\ call.pc = "chunks"
    /\ LET chunks == chunk_text(call.args.text, CHUNK_SIZE)
           prompt == ChunkPrompt(call.args.chunk_label, call.idx,
                                 chunks[call.idx + 1])
       IN  /\ call.idx < Len(chunks)
           /\ call' = [call EXCEPT
                  !.idx = @ + 1,
                  !.prompts = Append(@, prompt),
                  !.partial_summaries =
                      AppendPart(@, Respond(call.args.llm, prompt))]
    /\ UNCHANGED buildVars

\* the chunks are exhausted; the reduction call: lines 135-139
Reduce ==
    /\ call.pc = "chunks"
    /\ call.idx = Len(chunk_text(call.args.text, CHUNK_SIZE))
    /\ LET prompt == CombinePrompt(call.partial_summaries)
       IN  call' = [fn |-> "summarize_large_text", pc |-> "returned",
                    args |-> call.args,
                    prompts |-> Append(call.prompts, prompt),
                    ret |-> Respond(call.args.llm, prompt)]
    /\ UNCHANGED buildVars

\* the contents get_file_summary is called on: those of the build and 3, a
\* source nested too deep for ast.parse
FileKinds == Contents \cup {3}

\* the records cache["files"] may hold for the file: none, or a summary of
\* an earlier build under the digest of some content
CachedEntries ==
    {NoEntry} \cup {[hash |-> compute_sha256(c), summary |-> 1] :
                        c \in FileKinds}

\* get_file_summary(llm, filepath, cache, use_ast), the LLM answering
get_file_summary(ast, c, cached_entry) ==
    LET file_hash == compute_sha256(c)
    IN  IF FileHit(cached_entry, file_hash)
        THEN [outcome |-> "returned", summary |-> cached_entry.summary,
              entry |-> cached_entry, calls |-> 0, raw |-> FALSE]
        ELSE IF ast /\ ast_parse_file(c) = "raises"
        THEN [outcome |-> "raised", summary |-> 0,
              entry |-> cached_entry, calls |-> 0, raw |-> FALSE]
        ELSE [outcome |-> "returned", summary |-> Answer(2),
              entry |-> [hash |-> file_hash, summary |-> Answer(2)],
              calls |-> FileCalls(ast, c), raw |-> RawText(ast, c)]

CallGetFileSummary(ast, c, cached_entry) ==
    /\ CallDone
    /\ call' = [fn |-> "get_file_summary", pc |-> "returned",
                args |-> [use_ast |-> ast, content |-> c,
                          cached_entry |-> cached_entry],
                ret |-> get_file_summary(ast, c, cached_entry)]
    /\ UNCHANGED buildVars

\* summarize_directory of src/utils/auto_document2.py, the variant of the
\* pipeline with the parameter embed_raw_code_in_dir_summary.  A text is the
\* sequence of its pieces, one per key of file_summaries; the body of a
\* piece is <<"summary", s>> for a file-level summary and <<"source", c>>
\* for what f.read() returns.
DirFiles == <<"D/A.py", "D/B.py">>

\* f"FILE: {fp}\nSUMMARY:\n{fsum}\n"
SummaryPiece(fp, fsum) ==
    [head |-> "FILE", path |-> fp, body |-> <<"summary", fsum>>]

\* f"### {fp}\n{f.read()}"
SourcePiece(fp, c) ==
    [head |-> "###", path |-> fp, body |-> <<"source", c>>]

\* the trees of the directory and the summaries of its files
DirTrees == [{DirFiles[i] : i \in 1..Len(DirFiles)} -> FileKinds]

FileSummaryOf(c) == 10 + c

\* the directory records cache["directories"] may hold: none, or one under
\* the digest of some tree
DirEntries ==
    {NoDirEntry} \cup
    {[dir_hash |-> combine_hashes(sorted(
                      [i \in 1..Len(DirFiles) |-> compute_sha256(t[DirFiles[i]])])),
      summary |-> 1] : t \in DirTrees}

\* summarize_directory(llm, dir_path, file_summaries, cache,
\*                     embed_raw_code_in_dir_summary), the LLM answering
summarize_directory(embed, tree, cached_entry) ==
    LET dir_hash == combine_hashes(sorted(
                        [i \in 1..Len(DirFiles) |->
                             compute_sha256(tree[DirFiles[i]])]))
        text == [i \in 1..Len(DirFiles) |->
                    IF embed
                    THEN SourcePiece(DirFiles[i], tree[DirFiles[i]])
                    ELSE SummaryPiece(DirFiles[i],
                                      FileSummaryOf(tree[DirFiles[i]]))]
    IN  IF DirHit(cached_entry, dir_hash)
        THEN [outcome |-> "returned", summary |-> cached_entry.summary,
              entry |-> cached_entry, submitted |-> <<>>]
        ELSE [outcome |-> "returned", summary |-> Answer(2),
              entry |-> [dir_hash |-> dir_hash, summary |-> Answer(2)],
              submitted |-> text]

CallSummarizeDirectory(embed, tree, cached_entry) ==
    /\ CallDone
    /\ call' = [fn |-> "summarize_directory", pc |-> "returned",
                args |-> [embed_raw_code_in_dir_summary |-> embed,
                          tree |-> tree, cached_entry |-> cached_entry],
                ret |-> summarize_directory(embed, tree, cached_entry)]
    /\ UNCHANGED buildVars

LibNext ==
    \/ \E xs \in HashLists, ys \in HashLists : CallCombine(xs, ys)
    \/ \E a \in ChunkArgs : CallChunkText(a[1], a[2])
    \/ \E llm \in Stubs, text \in Texts : CallSummarize(llm, text)
    \/ SummarizeChunk
    \/ Reduce
    \/ \E ast \in BOOLEAN, c \in FileKinds, e \in CachedEntries :
           CallGetFileSummary(ast, c, e)
    \/ \E embed \in BOOLEAN, tree \in DirTrees, e \in DirEntries :
           CallSummarizeDirectory(embed, tree, e)

SpecLib == LibInit /\ [][LibNext]_vars

(***************************************************************************)
(* The file tools of src/tools (write_file, delete_file, read_file,        *)
(* rename_move_file), each called once on a small filesystem.  A resolved  *)
(* path is the sequence of its names from the filesystem root; the project *)
(* root is /p, /p2 is a directory next to it, and files named a may exist  *)
(* in /p, in /p/.git, in /p2 and in /.                                     *)
(***************************************************************************)
\* names of a file_path argument
MaxPath == 3

\* Path(project_root).resolve()
project_root == <<"p">>

\* the directories, which exist throughout, and the places of the files
ToolDirs == {<<>>, <<"p">>, <<"p", ".git">>, <<"p2">>}

FileLocs == {<<"p", "a">>, <<"p", ".git", "a">>, <<"p2", "a">>, <<"a">>}

\* the filesystems a tool is called on: 0 is no file, 1 a file
FileSystems == [FileLocs -> {0, 1}]

\* the characters of a name
Chars(name) ==
    CASE name = "p" -> <<"p">>
      [] name = "p2" -> <<"p", "2">>
      [] name = ".git" -> <<".", "g">>
      [] OTHER -> <<"a">>

RECURSIVE Str(_)
\* str(path) of a resolved path
Str(path) ==
    IF path = <<>> THEN <<>>
    ELSE Str(SubSeq(path, 1, Len(path) - 1))
             \o <<"/">> \o Chars(path[Len(path)])

\* str.startswith
startswith(s, prefix) ==
    Len(prefix) <= Len(s) /\ SubSeq(s, 1, Len(prefix)) = prefix

RECURSIVE Resolve(_, _)
\* (base / file_path).resolve(), file_path relative: ".." steps to the
\* parent and stays at the filesystem root
Resolve(base, file_path) ==
    IF file_path = <<>> THEN base
    ELSE IF Head(file_path) = ".."
    THEN Resolve(IF base = <<>> THEN <<>>
                 ELSE SubSeq(base, 1, Len(base) - 1), Tail(file_path))
    ELSE Resolve(Append(base, Head(file_path)), Tail(file_path))

\* the file_path arguments: those that resolve to a place of the model
PathsUpTo(n) ==
    {fp \in UNION {[1..k -> {"..", "p2", ".git", "a"}] : k \in 1..n} :
        Resolve(project_root, fp) \in ToolDirs \cup FileLocs}

ToolPaths == PathsUpTo(MaxPath)

\* Path.exists and Path.is_dir
exists(fsys, target) ==
    target \in ToolDirs \/ (target \in FileLocs /\ fsys[target] # 0)

is_dir(target) == target \in ToolDirs

\* the test the four tools make of a resolved path
InRoot(target) == startswith(Str(target), Str(project_root))

\* write_file's test of the excluded directories
InExcluded(target) ==
    \E dir \in exclude_dirs :
        startswith(Str(target), Str(Resolve(project_root, <<dir>>)))

\* what a tool returns, with the filesystem it leaves
ToolError(fsys) == [kind |-> "error", fsys |-> fsys, content |-> 0]

ToolSuccess(fsys) == [kind |-> "success", fsys |-> fsys, content |-> 0]

write_file(fsys, file_path) ==
    LET target_path == Resolve(project_root, file_path)
    IN  IF ~InRoot(target_path) THEN ToolError(fsys)
        ELSE IF exists(fsys, target_path) /\ is_dir(target_path)
        THEN ToolError(fsys)
        ELSE IF InExcluded(target_path) THEN ToolError(fsys)
        ELSE ToolSuccess([fsys EXCEPT ![target_path] = 1])

delete_file(fsys, file_path) ==
    LET target_path == Resolve(project_root, file_path)
    IN  IF ~InRoot(target_path) THEN ToolError(fsys)
        ELSE IF ~exists(fsys, target_path) THEN ToolError(fsys)
        ELSE IF is_dir(target_path) THEN ToolError(fsys)
        ELSE ToolSuccess([fsys EXCEPT ![target_path] = 0])

read_file(fsys, file_path) ==
    LET target_path == Resolve(project_root, file_path)
    IN  IF ~InRoot(target_path) THEN ToolError(fsys)
        ELSE IF ~exists(fsys, target_path) THEN ToolError(fsys)
        ELSE IF is_dir(target_path) THEN ToolError(fsys)
        ELSE [kind |-> "content", fsys |-> fsys,
              content |-> fsys[target_path]]

rename_move_file(fsys, source_path, destination_path) ==
    LET source == Resolve(project_root, source_path)
        destination == Resolve(project_root, destination_path)
    IN  IF ~InRoot(source) \/ ~InRoot(destination) THEN ToolError(fsys)
        ELSE IF ~exists(fsys, source) THEN ToolError(fsys)
        ELSE IF is_dir(source) THEN ToolError(fsys)
        ELSE IF exists(fsys, destination) THEN ToolError(fsys)
        ELSE ToolSuccess([fsys EXCEPT ![source] = 0,
                                      ![destination] = fsys[source]])

\* a tool is called on the filesystem fsys
ToolCall(fn, fsys, paths, ret) ==
    /\ CallDone
    /\ call' = [fn |-> fn, pc |-> "returned",
                args |-> [fsys |-> fsys, paths |-> paths],
                targets |-> {Resolve(project_root, paths[i]) :
                                i \in 1..Len(paths)},
                ret |-> ret]
    /\ UNCHANGED buildVars

CallWriteFile(fsys, fp) ==
    ToolCall("write_file", fsys, <<fp>>, write_file(fsys, fp))

CallDeleteFile(fsys, fp) ==
    ToolCall("delete_file", fsys, <<fp>>, delete_file(fsys, fp))

CallReadFile(fsys, fp) ==
    ToolCall("read_file", fsys, <<fp>>, read_file(fsys, fp))

CallRenameMoveFile(fsys, src, dst) ==
    ToolCall("rename_move_file", fsys, <<src, dst>>,
             rename_move_file(fsys, src, dst))

ToolsNext ==
    \/ \E fsys \in FileSystems, fp \in ToolPaths : CallWriteFile(fsys, fp)
    \/ \E fsys \in FileSystems, fp \in ToolPaths : CallDeleteFile(fsys, fp)
    \/ \E fsys \in FileSystems, fp \in ToolPaths : CallReadFile(fsys, fp)
    \/ \E fsys \in FileSystems, src \in ToolPaths, dst \in PathsUpTo(2) :
           CallRenameMoveFile(fsys, src, dst)

SpecTools == LibInit /\ [][ToolsNext]_vars

(***************************************************************************)
(* Two processes call build_documentation side by side in one working      *)
(* directory, so on one cache file (CACHE_FILE is a relative path), each   *)
(* on a root of its own: D, or its subdirectory D/sub.  The tree is left   *)
(* alone, every llm.prompt call returns, and process r is answered         *)
(* Answer(r).  load_cache and save_cache are taken as atomic, the case     *)
(* most favourable to the builds.                                          *)
(***************************************************************************)
Roots == {"D", "D/sub"}

\* dir_to_files of a build called on root
dir_to_files_of(tree, root) ==
    IF root = root_dir THEN dir_to_files(tree)
    ELSE {d \in {root} : PyFiles(tree, d) # {}}

RECURSIVE FilesDone(_, _, _, _)
\* the cache dict after get_file_summary has returned for the files
FilesDone(c, files, tree, r) ==
    IF files = <<>> THEN c
    ELSE LET f == Head(files)
             file_hash == compute_sha256(tree[f])
         IN FilesDone(IF FileHit(c.files[f], file_hash) THEN c
                      ELSE PutFile(c, f, file_hash, Answer(r)),
                      Tail(files), tree, r)

\* the cache dict after the inner loop and summarize_directory for d
DirDone(c, d, tree, r) ==
    LET keys == Restrict(Listing, PyFiles(tree, d))
        c1 == FilesDone(c, keys, tree, r)
        dir_hash == DirHash(c1, keys)
    IN IF DirHit(c1.directories[d], dir_hash) THEN c1
       ELSE PutDir(c1, d, dir_hash, Answer(r))

RECURSIVE DirsDone(_, _, _, _)
DirsDone(c, dirs, tree, r) ==
    IF dirs = <<>> THEN c
    ELSE DirsDone(DirDone(c, Head(dirs), tree, r), Tail(dirs), tree, r)

\* the cache dict a build of process r on root holds when it reaches
\* save_cache, having loaded c
Built(c, tree, root, r) ==
    LET keys == Restrict(WalkOrder, dir_to_files_of(tree, root))
        c2 == DirsDone(c, keys, tree, r)
        codebase_hash == CodebaseHash(c2, keys)
    IN IF CodebaseHit(c2.codebase, codebase_hash) THEN c2
       ELSE PutCodebase(c2, codebase_hash, Answer(r))

ConcInit ==
    /\ fs \in {tree \in [Paths -> {0} \cup Contents] : tree["D/.git/X.py"] = 1}
    /\ procs \in [Procs -> {[pc |-> "called", root |-> root,
                             cache |-> EmptyCache] : root \in Roots}]
    /\ disk = NoFile
    /\ pc = "idle"
    /\ cache = EmptyCache
    /\ use_ast = TRUE
    /\ file_sums = NoSums
    /\ directory_summaries = NoDirSums
    /\ runs = 0
    /\ outcome = "none"
    /\ llmCalls = 0
    /\ summaryCalls = <<>>
    /\ chunked = FALSE
    /\ step = NoStep
    /\ visits = NoVisits
    /\ disk0 = NoFile
    /\ prevOk = FALSE
    /\ fsPrev = NoSums
    /\ call = NoCall
    /\ ad = NoAutoDoc
    /\ doc = NoDoc

\* what no step of the processes changes
concFrame == <<fs, pc, cache, use_ast, file_sums, directory_summaries, runs,
               outcome, llmCalls, summaryCalls, chunked, step, visits, disk0,
               prevOk, fsPrev, call, ad, doc>>

\* cache = load_cache(): line 233
ProcLoad(r) ==
    /\ procs[r].pc = "called"
    /\ procs' = [procs EXCEPT ![r].pc = "loaded",
                              ![r].cache = load_cache(disk)]
    /\ UNCHANGED <<disk, concFrame>>

\* the walk, the loops and the codebase step: lines 235-273
ProcBuild(r) ==
    /\ procs[r].pc = "loaded"
    /\ procs' = [procs EXCEPT ![r].pc = "built",
                              ![r].cache = Built(procs[r].cache, fs,
                                                 procs[r].root, r)]
    /\ UNCHANGED <<disk, concFrame>>

\* save_cache(cache); return final_summary: lines 276-278
ProcSave(r) ==
    /\ procs[r].pc = "built"
    /\ disk' = save_cache(procs[r].cache)
    /\ procs' = [procs EXCEPT ![r].pc = "returned"]
    /\ UNCHANGED concFrame

ConcNext ==
    \/ \E r \in Procs : ProcLoad(r)
    \/ \E r \in Procs : ProcBuild(r)
    \/ \E r \in Procs : ProcSave(r)

SpecConc == ConcInit /\ [][ConcNext]_vars

(***************************************************************************)
(* auto_doc of src/doc/__init__.py with the DocstringUpdater of            *)
(* src/doc/auto_docstring.py.  A text is the sequence of its characters:   *)
(* "q" is the double quote, "a" the apostrophe, "n" the newline and "c"    *)
(* any other character.  The project is directory D with the files A.py    *)
(* and B.py; nothing but auto_doc writes to them.                          *)
(***************************************************************************)
\* pieces of the text of A.py
MaxPieces == 3

TQ == <<"q", "q", "q">>

Pieces == {TQ, <<"q">>, <<"n">>, <<"c">>}

RECURSIVE TextsFrom(_)
\* the texts of at most k pieces
TextsFrom(k) ==
    IF k = 0 THEN {<<>>}
    ELSE LET shorter == TextsFrom(k - 1)
         IN shorter \cup {t \o x : t \in shorter, x \in Pieces}

DocTexts == TextsFrom(MaxPieces)

\* what llm.prompt may return for a docstring
Docstrings ==
    {<<"c", "q">>, <<"n", "c", "n">>, <<"q", "q", "q", "c">>, <<"n">>}

\* text.encode("utf-8")
Utf8(text) ==
    [i \in 1..Len(text) |->
        CASE text[i] = "q" -> 34
          [] text[i] = "a" -> 39
          [] text[i] = "n" -> 10
          [] OTHER -> 99]

\* _compute_file_hash(file_content)
compute_file_hash(file_content) == Sha256(Utf8(file_content))

\* three double quotes stand at position i of s
QuotesAt(s, i) ==
    i + 2 <= Len(s) /\ s[i] = "q" /\ s[i + 1] = "q" /\ s[i + 2] = "q"

\* DOCSTRING_REGEX.match(content).end(), 0 when there is no match: the
\* pattern is anchored at the start and its group is not greedy
MatchEnd(content) ==
    IF QuotesAt(content, 1) /\ \E j \in 4..Len(content) : QuotesAt(content, j)
    THEN 2 + CHOOSE j \in 4..Len(content) :
                 /\ QuotesAt(content, j)
                 /\ \A k \in 4..(j - 1) : ~QuotesAt(content, k)
    ELSE 0

RECURSIVE lstrip_newlines(_)
\* s.lstrip("\n")
lstrip_newlines(s) ==
    IF s # <<>> /\ Head(s) = "n" THEN lstrip_newlines(Tail(s)) ELSE s

RECURSIVE rstrip(_)
rstrip(s) ==
    IF s # <<>> /\ s[Len(s)] = "n" THEN rstrip(SubSeq(s, 1, Len(s) - 1)) ELSE s

\* s.strip(): the newline is the white space of the alphabet
strip(s) == rstrip(lstrip_newlines(s))

RECURSIVE replace_quotes(_)
\* s.replace of three double quotes by three apostrophes
replace_quotes(s) ==
    IF s = <<>> THEN <<>>
    ELSE IF QuotesAt(s, 1)
    THEN <<"a", "a", "a">> \o replace_quotes(SubSeq(s, 4, Len(s)))
    ELSE <<Head(s)>> \o replace_quotes(Tail(s))

\* _extract_code_without_top_level_docstring(content)
extract_code_without_top_level_docstring(content) ==
    IF MatchEnd(content) # 0
    THEN lstrip_newlines(SubSeq(content, MatchEnd(content) + 1, Len(content)))
    ELSE content

\* _insert_top_level_docstring(docstring, content)
insert_top_level_docstring(docstring, content) ==
    TQ \o docstring \o TQ \o <<"n", "n">> \o content

\* _generate_docstring_for_file(code), the LLM answering answer
generate_docstring_for_file(answer) == strip(replace_quotes(answer))

\* faulty variant: the digest stored is that of the whole file written
new_code_hash_OfFile(updated) == compute_file_hash(updated)

\* new_code_hash of lines 179-181
new_code_hash(updated) ==
    compute_file_hash(extract_code_without_top_level_docstring(updated))

DocFiles == <<"D/A.py", "D/B.py">>

DocFileSet == {DocFiles[i] : i \in 1..Len(DocFiles)}

\* no entry of hash_db
NoHash == <<>>

\* update_docstring_in_file returns without asking the LLM
Skips(content, stored_hash) ==
    LET content_no_docstring == extract_code_without_top_level_docstring(content)
    IN \/ strip(content_no_docstring) = <<>>
       \/ stored_hash = compute_file_hash(content_no_docstring)

\* the file that update_docstring_in_file writes
updated_content(content, answer) ==
    insert_top_level_docstring(
        generate_docstring_for_file(answer),
        extract_code_without_top_level_docstring(content))

\* faulty variant: the new digest is recorded before the LLM is asked
HashDbOnRaise_StoredFirst(hash_db, f, content) ==
    [hash_db EXCEPT ![f] = compute_file_hash(
                               extract_code_without_top_level_docstring(content))]

\* hash_db after llm.prompt raised in update_docstring_in_file
HashDbOnRaise(hash_db, f, content) == hash_db

\* the summary cache of the documentation engine for the project: the
\* records of the files, of directory D and of the codebase
NoSummaryCache ==
    [files |-> [f \in DocFileSet |-> NoEntry],
     directory |-> NoDirEntry,
     codebase |-> NoEntry]

DocFileHashes(files) ==
    [i \in 1..Len(DocFiles) |-> Sha256(Utf8(files[DocFiles[i]]))]

DocDirHash(files) == combine_hashes(sorted(DocFileHashes(files)))

DocCodebaseHash(files) == combine_hashes(sorted(<<DocDirHash(files)>>))

\* the entities whose summary update_documentation asks the LLM for
EngineMisses(files, c) ==
    {f \in DocFileSet : ~FileHit(c.files[f], Sha256(Utf8(files[f])))}
    \cup {d \in {"D"} : ~DirHit(c.directory, DocDirHash(files))}
    \cup {e \in {CODEBASE} : ~CodebaseHit(c.codebase, DocCodebaseHash(files))}

\* the summary cache that update_documentation saves in run r
EngineSaves(files, c, r) ==
    [files |-> [f \in DocFileSet |->
                   IF f \in EngineMisses(files, c)
                   THEN [hash |-> Sha256(Utf8(files[f])), summary |-> Answer(r)]
                   ELSE c.files[f]],
     directory |-> IF "D" \in EngineMisses(files, c)
                   THEN [dir_hash |-> DocDirHash(files), summary |-> Answer(r)]
                   ELSE c.directory,
     codebase |-> IF CODEBASE \in EngineMisses(files, c)
                  THEN [hash |-> DocCodebaseHash(files), summary |-> Answer(r)]
                  ELSE c.codebase]

\* faulty variant: the documentation is built before the docstrings
Phases_EngineFirst(update_file_docstrings) ==
    IF update_file_docstrings THEN <<"engine", "docstrings">> ELSE <<"engine">>

\* the parts of auto_doc, in the order of lines 5-8
Phases(update_file_docstrings) ==
    IF update_file_docstrings THEN <<"docstrings", "engine">> ELSE <<"engine">>

NoUpdate == [file |-> "", called |-> FALSE, failed |-> FALSE,
             content |-> <<>>, hash_db |-> <<>>]

DocInit ==
    /\ ad \in {[pc |-> "idle",
                files |-> [f \in DocFileSet |->
                              IF f = "D/A.py" THEN a ELSE b],
                hash_db |-> [f \in DocFileSet |-> NoHash],
                hash_file |-> [f \in DocFileSet |-> NoHash],
                summary_cache |-> NoSummaryCache,
                plan |-> <<>>, todo |-> <<>>, run |-> 0,
                flag |-> FALSE, prevFlag |-> FALSE,
                outcome |-> "none", prevOk |-> FALSE,
                updCalls |-> 0, engCalls |-> 0, writes |-> 0,
                last |-> NoUpdate] :
                    a \in DocTexts, b \in {<<"c">>}}
    /\ fs = NoSums
    /\ disk = NoFile
    /\ pc = "idle"
    /\ cache = EmptyCache
    /\ use_ast = TRUE
    /\ file_sums = NoSums
    /\ directory_summaries = NoDirSums
    /\ runs = 0
    /\ outcome = "none"
    /\ llmCalls = 0
    /\ summaryCalls = <<>>
    /\ chunked = FALSE
    /\ step = NoStep
    /\ visits = NoVisits
    /\ disk0 = NoFile
    /\ prevOk = FALSE
    /\ fsPrev = NoSums
    /\ call = NoCall
    /\ procs = NoProcs
    /\ doc = NoDoc

\* what no step of auto_doc changes
docFrame == <<fs, disk, pc, cache, use_ast, file_sums, directory_summaries,
              runs, outcome, llmCalls, summaryCalls, chunked, step, visits,
              disk0, prevOk, fsPrev, call, procs, doc>>

\* the state after a part of auto_doc has ended
PartDone(st) ==
    IF Len(st.plan) > 1
    THEN [st EXCEPT !.plan = Tail(@), !.pc = st.plan[2],
                    !.todo = IF st.plan[2] = "docstrings" THEN DocFiles
                             ELSE <<>>,
                    !.hash_db = IF st.plan[2] = "docstrings"
                                THEN st.hash_file ELSE @]
    ELSE [st EXCEPT !.plan = <<>>, !.pc = "idle", !.outcome = "ok"]

\* auto_doc(project_root, update_file_docstrings) is called
AutoDoc(update_file_docstrings) ==
    /\ ad.pc = "idle"
    /\ ad.run < MaxRuns
    /\ LET plan == Phases(update_file_docstrings)
       IN ad' = [ad EXCEPT
                    !.run = @ + 1,
                    !.flag = update_file_docstrings,
                    !.prevFlag = ad.flag,
                    !.prevOk = (ad.outcome = "ok"),
                    !.outcome = "running",
                    !.updCalls = 0, !.engCalls = 0, !.writes = 0,
                    !.last = NoUpdate,
                    !.plan = plan,
                    !.pc = plan[1],
                    !.todo = IF plan[1] = "docstrings" THEN DocFiles ELSE <<>>,
                    !.hash_db = IF plan[1] = "docstrings" THEN ad.hash_file
                                ELSE @]
    /\ UNCHANGED docFrame

\* update_docstrings_in_directory has come to the end of its walk
DocstringsDone ==
    /\ ad.pc = "docstrings"
    /\ ad.todo = <<>>
    /\ ad' = PartDone(ad)
    /\ UNCHANGED docFrame

\* update_docstring_in_file(file_path) returns, the LLM answering answer
UpdateDocstring(answer) ==
    /\ ad.pc = "docstrings"
    /\ ad.todo # <<>>
    /\ LET f == Head(ad.todo)
           content == ad.files[f]
           before == [file |-> f, called |-> FALSE, failed |-> FALSE,
                      content |-> content, hash_db |-> ad.hash_db]
       IN IF Skips(content, ad.hash_db[f])
          THEN ad' = [ad EXCEPT !.todo = Tail(@), !.last = before]
          ELSE LET written == updated_content(content, answer)
                   db == [ad.hash_db EXCEPT ![f] = new_code_hash(written)]
               IN ad' = [ad EXCEPT
                            !.todo = Tail(@),
                            !.files[f] = written,
                            !.hash_db = db,
                            !.hash_file = db,
                            !.updCalls = @ + 1,
                            !.writes = @ + 1,
                            !.last = [before EXCEPT !.called = TRUE]]
    /\ UNCHANGED docFrame

\* llm.prompt raises in update_docstring_in_file: auto_doc is left
UpdateDocstringRaises ==
    /\ ad.pc = "docstrings"
    /\ ad.todo # <<>>
    /\ LET f == Head(ad.todo)
           content == ad.files[f]
       IN /\ ~Skips(content, ad.hash_db[f])
          /\ ad' = [ad EXCEPT
                       !.hash_db = HashDbOnRaise(ad.hash_db, f, content),
                       !.updCalls = @ + 1,
                       !.pc = "idle", !.plan = <<>>, !.todo = <<>>,
                       !.outcome = "error",
                       !.last = [file |-> f, called |-> TRUE, failed |-> TRUE,
                                 content |-> content, hash_db |-> ad.hash_db]]
    /\ UNCHANGED docFrame

\* update_documentation(project_root, doc_output_path) returns
UpdateDocumentation ==
    /\ ad.pc = "engine"
    /\ LET misses == EngineMisses(ad.files, ad.summary_cache)
           st == [ad EXCEPT
                     !.engCalls = Cardinality(misses),
                     !.summary_cache =
                         EngineSaves(ad.files, ad.summary_cache, ad.run)]
       IN ad' = PartDone(st)
    /\ UNCHANGED docFrame

DocNext ==
    \/ \E b \in BOOLEAN : AutoDoc(b)
    \/ \E answer \in Docstrings : UpdateDocstring(answer)
    \/ UpdateDocstringRaises
    \/ DocstringsDone
    \/ UpdateDocumentation

SpecDoc == DocInit /\ [][DocNext]_vars

(***************************************************************************)
(* OpenAIClient.run_thread of src/utils/openai_utils.py, called once.  The *)
(* run object is known by its status; a round of the tool loop executes    *)
(* the tool calls of the run and submits their outputs.                    *)
(***************************************************************************)
\* rounds of the tool loop after which the assistant asks for no more tools
MaxRounds == 3

\* lines that the last loop prints before the model stops counting them
MaxPrints == 2

\* the statuses a polled run can have
Statuses ==
    {"requires_action", "completed", "failed", "expired", "cancelled",
     "incomplete"}

\* the tool calls of one required_action
ToolCalls == 1..2

\* create_and_poll has returned a run with the given status: lines 99-109
ThreadInit ==
    /\ call \in {[fn |-> "run_thread", pc |-> "tools", status |-> s,
                  round |-> 0, tool_outputs |-> 0, prints |-> 0,
                  exit_flag |-> FALSE] : s \in Statuses}
    /\ fs = NoSums
    /\ disk = NoFile
    /\ pc = "idle"
    /\ cache = EmptyCache
    /\ use_ast = TRUE
    /\ file_sums = NoSums
    /\ directory_summaries = NoDirSums
    /\ runs = 0
    /\ outcome = "none"
    /\ llmCalls = 0
    /\ summaryCalls = <<>>
    /\ chunked = FALSE
    /\ step = NoStep
    /\ visits = NoVisits
    /\ disk0 = NoFile
    /\ prevOk = FALSE
    /\ fsPrev = NoSums
    /\ procs = NoProcs
    /\ ad = NoAutoDoc
    /\ doc = NoDoc

\* _execute_tools(run): of the n tool calls of the run, k return an output
\* and the others raise; terminate_session may be among them
ExecuteTools(n, k, terminate) ==
    /\ call.pc = "tools"
    /\ call.status = "requires_action"
    /\ call' = [call EXCEPT
                   !.tool_outputs = k,
                   !.exit_flag = (@ \/ terminate),
                   !.pc = IF k > 0 THEN "submit" ELSE "spin"]
    /\ UNCHANGED buildVars

\* the condition of the first loop is false: line 112
NoToolsRequired ==
    /\ call.pc = "tools"
    /\ call.status # "requires_action"
    /\ call' = [call EXCEPT !.pc = "spin"]
    /\ UNCHANGED buildVars

\* submit_tools_and_get_run returns the run polled after the submission
SubmitTools(s) ==
    /\ call.pc = "submit"
    /\ call.round < MaxRounds
    /\ s = "requires_action" => call.round + 1 < MaxRounds
    /\ call' = [call EXCEPT !.status = s, !.round = @ + 1,
                            !.tool_outputs = 0, !.pc = "tools"]
    /\ UNCHANGED buildVars

\* the submission raises and submit_tools_and_get_run returns the run it
\* was given: lines 93-95
SubmitFails ==
    /\ call.pc = "submit"
    /\ call.round + 1 < MaxRounds
    /\ call' = [call EXCEPT !.round = @ + 1, !.tool_outputs = 0,
                            !.pc = "tools"]
    /\ UNCHANGED buildVars

\* one turn of the loop of lines 121-122: the status is printed, the run is
\* not polled again.  Past MaxPrints lines the turn leaves the state as it
\* is: the loop goes on and nothing changes any more.
PrintStatus ==
    /\ call.pc = "spin"
    /\ call.status # "completed"
    /\ call' = [call EXCEPT !.prints = IF @ < MaxPrints THEN @ + 1 ELSE @]
    /\ UNCHANGED buildVars

\* the condition of the last loop is false: run_thread returns
ThreadReturns ==
    /\ call.pc = "spin"
    /\ call.status = "completed"
    /\ call' = [call EXCEPT !.pc = "returned"]
    /\ UNCHANGED buildVars

ThreadNext ==
    \/ \E n \in ToolCalls, k \in 0..2, t \in BOOLEAN :
           k <= n /\ ExecuteTools(n, k, t)
    \/ NoToolsRequired
    \/ \E s \in Statuses : SubmitTools(s)
    \/ SubmitFails
    \/ PrintStatus
    \/ ThreadReturns

\* run_thread is sequential code: it goes on as long as it has not returned
FairThread == ThreadInit /\ [][ThreadNext]_vars /\ WF_vars(ThreadNext)

(***************************************************************************)
(* Vocabulary of the properties.                                           *)
(***************************************************************************)
\* a build has finished and build_documentation has not yet been left
Finished == pc = "done"

Succeeded == pc = "done" /\ outcome = "ok"

\* the entities the current build asked a summary for
summarized == {summaryCalls[i] : i \in 1..Len(summaryCalls)}

\* the cache the current build loaded
Loaded == load_cache(disk0)

\* the record of entity e (a file, a directory or the codebase) in cache c
Rec(c, e) ==
    IF e \in Paths THEN c.files[e]
    ELSE IF e \in Dirs THEN c.directories[e]
    ELSE c.codebase

\* the entities whose summary is built from that of e
Ancestors(e) ==
    IF e \in Paths THEN {Parent(e), CODEBASE}
    ELSE IF e \in Dirs THEN {CODEBASE}
    ELSE {}

\* the current build follows a successful build whose cache file is intact
AfterSuccess == prevOk /\ disk0.kind = "json"

\* the files that differ between the tree of the previous build and this one
Changed == {p \in Paths : fs[p] # fsPrev[p]}

\* an LLM call raised in the last step (a read failure makes no call)
LLMFailed == step.failed /\ step.calls > 0

(***************************************************************************)
(* C1.  Idempotence: when a build has succeeded and no source file was     *)
(* added, removed or changed since, the next build makes no llm.prompt     *)
(* call and leaves the cache file exactly as that build persisted it.      *)
(***************************************************************************)
C1_Idempotence ==
    (Finished /\ AfterSuccess /\ fs = fsPrev) =>
        (llmCalls = 0 /\ summaryCalls = <<>> /\ disk = disk0)

C1_Witness ==
    /\ Succeeded /\ AfterSuccess /\ fs = fsPrev
    /\ \A p \in Paths : fs[p] # 0
    /\ llmCalls = 0 /\ disk = disk0

(***************************************************************************)
(* C2.  Invalidation locality: when, after a successful build, the content *)
(* of exactly one file f is edited, the next successful build changes the  *)
(* records of f, of the directory of f and of the codebase, and no other   *)
(* file record or directory record.                                        *)
(***************************************************************************)
OneEdited(f) ==
    /\ Changed = {f}
    /\ fs[f] # 0 /\ fsPrev[f] # 0

C2_InvalidationLocality ==
    \A f \in Paths :
        (Succeeded /\ AfterSuccess /\ OneEdited(f)) =>
            /\ disk.cache.files[f].hash # disk0.cache.files[f].hash
            /\ disk.cache.directories[Parent(f)].dir_hash
                   # disk0.cache.directories[Parent(f)].dir_hash
            /\ disk.cache.codebase.hash # disk0.cache.codebase.hash
            /\ {f, Parent(f), CODEBASE} \subseteq summarized
            /\ \A p \in Paths \ {f} :
                   disk.cache.files[p] = disk0.cache.files[p]
            /\ \A d \in Dirs \ {Parent(f)} :
                   disk.cache.directories[d] = disk0.cache.directories[d]

C2_Witness ==
    /\ Succeeded /\ AfterSuccess /\ OneEdited("D/B.py")
    /\ \A p \in Paths : fs[p] # 0
    /\ disk.cache.directories["D/sub"] = disk0.cache.directories["D/sub"]
    /\ disk.cache.directories["D/sub"] # NoDirEntry

(***************************************************************************)
(* C3.  At each scope, a step that finds the stored digest equal to the    *)
(* digest it computed makes no llm.prompt call, leaves the cache alone and *)
(* returns the stored summary.                                             *)
(***************************************************************************)
FreshFile ==
    /\ CurFile # ""
    /\ cache.files[CurFile].hash = compute_sha256(fs[CurFile])

FreshDir ==
    /\ CurDir # "" /\ CurFile = ""
    /\ cache.directories[CurDir].dir_hash
           = DirHash(cache, Restrict(Listing, PyFiles(fs, CurDir)))

FreshCodebase ==
    /\ CurDir = ""
    /\ cache.codebase.hash
           = CodebaseHash(cache, Restrict(WalkOrder, dir_to_files(fs)))

\* the step read the file and computed the digest
DigestComputed == ~(step'.failed /\ step'.calls = 0)

C3_ReuseBeforeSummarizer ==
    [][(pc = "loop" /\ DigestComputed) =>
        /\ FreshFile =>
             /\ llmCalls' = llmCalls /\ cache' = cache /\ pc' = "loop"
             /\ file_sums'[CurFile] = cache.files[CurFile].summary
        /\ FreshDir =>
             /\ llmCalls' = llmCalls /\ cache' = cache /\ pc' = "loop"
             /\ directory_summaries'[CurDir]
                    = cache.directories[CurDir].summary
        /\ FreshCodebase =>
             /\ llmCalls' = llmCalls /\ cache' = cache /\ outcome' = "ok"
             /\ step'.ret = cache.codebase.summary
      ]_vars

C3_Witness ==
    /\ Succeeded /\ llmCalls = 0
    /\ step = Reused(CODEBASE, disk0.cache.codebase.summary)
    /\ dir_to_files(fs) = {"D", "D/sub"}
    /\ \A d \in dir_to_files(fs) :
           directory_summaries[d] = disk0.cache.directories[d].summary
    /\ \A d \in dir_to_files(fs) : directory_summaries[d] # 0

(***************************************************************************)
(* C4.  A record is stored only after the LLM call that produced its       *)
(* summary returned: when an llm.prompt call raises, the record of the     *)
(* entity being summarised and the records of its ancestors are what they  *)
(* were before the build, in the cache dict and in the cache file.         *)
(***************************************************************************)
C4_StoreAfterSuccess ==
    /\ (Finished /\ LLMFailed) =>
           /\ disk = disk0
           /\ \A e \in {step.key} \cup Ancestors(step.key) :
                  Rec(cache, e) = Rec(Loaded, e)
    /\ (pc \in {"loop", "done"}) =>
           \A e \in Paths \cup Dirs \cup {CODEBASE} :
               Rec(cache, e) # Rec(Loaded, e) =>
                   e \in summarized /\ ~(step.failed /\ step.key = e)

C4_Witness ==
    /\ Finished /\ LLMFailed
    /\ step.key \in Paths
    /\ disk0.kind = "json"
    /\ disk0.cache.files[step.key] # NoEntry
    /\ cache.files[step.key] = disk0.cache.files[step.key]

(***************************************************************************)
(* C5.  (claim) A failure late in a build does not discard progress: every *)
(* record regenerated earlier in the build, for an entity unrelated to the *)
(* failed one, is in the cache file after the build aborts.                *)
(***************************************************************************)
Unrelated(e, x) == e # x /\ e \notin Ancestors(x) /\ x \notin Ancestors(e)

C5_ProgressPersisted ==
    (Finished /\ LLMFailed) =>
        \A e \in summarized :
            Unrelated(e, step.key) =>
                disk.kind = "json" /\ Rec(disk.cache, e) = Rec(cache, e)

(***************************************************************************)
(* C6.  (claim) A failure while processing one file aborts only that       *)
(* file's contribution: the build goes on to process the directories       *)
(* elsewhere in the tree.                                                  *)
(***************************************************************************)
C6_FileFailureIsLocal ==
    (Finished /\ step.failed /\ step.key \in Paths) =>
        \A d \in dir_to_files(fs) \ {Parent(step.key)} :
            directory_summaries[d] # 0

(***************************************************************************)
(* C7.  (claim) load_cache never fails: with no cache file or with a cache *)
(* file that does not parse, the build proceeds on the empty skeleton.     *)
(***************************************************************************)
C7_LoadNeverFails ==
    (pc \in {"loop", "done"} /\ disk0.kind # "json") =>
        /\ ~(step.failed /\ step.key = LOAD)
        /\ Loaded = EmptyCache

(***************************************************************************)
(* C8.  (claim) In a successful build, when the stored digest of a file    *)
(* record of directory d changes, the record of d is recomputed: a         *)
(* summary is asked for d.                                                 *)
(***************************************************************************)
DigestChanged(f) ==
    /\ disk0.cache.files[f] # NoEntry
    /\ disk.cache.files[f].hash # disk0.cache.files[f].hash

C8_DirRecomputed ==
    Succeeded =>
        \A f \in Paths : DigestChanged(f) => Parent(f) \in summarized

(***************************************************************************)
(* C9.  End-to-end, first build: from an empty cache, with one directory D *)
(* holding A.py and B.py, the build stores the records of A, B, D (digest  *)
(* combine of the sorted digests of A and B) and of the codebase (digest   *)
(* combine of the digest of D).  The claim counts three Summarizer calls;  *)
(* the build makes four, one each for A, B, D and the codebase, each a     *)
(* single llm.prompt call unless its text is oversized.                    *)
(***************************************************************************)
E2ETree(tree) ==
    tree["D/A.py"] # 0 /\ tree["D/B.py"] # 0 /\ tree["D/sub/C.py"] = 0

E2ERecords ==
    LET h1 == compute_sha256(fs["D/A.py"])
        h2 == compute_sha256(fs["D/B.py"])
        hD == combine_hashes(sorted(<<h1, h2>>))
    IN /\ disk.kind = "json"
       /\ disk.cache.files["D/A.py"].hash = h1
       /\ disk.cache.files["D/B.py"].hash = h2
       /\ disk.cache.files["D/sub/C.py"] = NoEntry
       /\ disk.cache.directories["D"].dir_hash = hD
       /\ disk.cache.directories["D/sub"] = NoDirEntry
       /\ disk.cache.codebase.hash = combine_hashes(<<hD>>)

E2ERun1 == Succeeded /\ disk0.kind = "absent" /\ E2ETree(fs)

\* the claim as stated: three calls, whichever way calls are counted
C9_ThreeCalls ==
    E2ERun1 =>
        /\ E2ERecords
        /\ (Len(summaryCalls) = 3 \/ llmCalls = 3)

C9_FourCalls ==
    E2ERun1 =>
        /\ E2ERecords
        /\ summaryCalls = <<"D/A.py", "D/B.py", "D", CODEBASE>>
        /\ llmCalls >= 4
        /\ ~chunked => llmCalls = 4

C9_Witness ==
    /\ E2ERun1 /\ E2ERecords
    /\ fs["D/A.py"] # fs["D/B.py"]
    /\ Len(summaryCalls) = 4
    /\ llmCalls = 4

(***************************************************************************)
(* C10.  End-to-end, second build: after a successful build on D = {A.py,  *)
(* B.py}, when only B.py is edited, the next build asks a summary for B, D *)
(* and the codebase (three llm.prompt calls when no text is oversized) and *)
(* none for A, whose record is kept as stored.                             *)
(***************************************************************************)
E2ERun2 ==
    /\ Succeeded /\ AfterSuccess
    /\ E2ETree(fs) /\ E2ETree(fsPrev)
    /\ Changed = {"D/B.py"}

C10_EndToEndRun2 ==
    E2ERun2 =>
        /\ summaryCalls = <<"D/B.py", "D", CODEBASE>>
        /\ disk.cache.files["D/A.py"] = disk0.cache.files["D/A.py"]
        /\ disk0.cache.files["D/A.py"] # NoEntry
        /\ llmCalls >= 3
        /\ ~chunked => llmCalls = 3

C10_Witness ==
    /\ E2ERun2
    /\ Len(summaryCalls) = 3
    /\ llmCalls = 3
    /\ disk.cache.files["D/A.py"].summary = 1
    /\ disk.cache.files["D/B.py"].summary = 2

(***************************************************************************)
(* C11.  combine_hashes gives the same digest for a list of digests and    *)
(* for any reordering of it.  combine_hashes hashes the concatenation in   *)
(* the order given (the sorting is done by its two callers), so two        *)
(* distinct digests in the two orders give two different results.          *)
(***************************************************************************)
\* ys is a reordering of xs
IsPerm(xs, ys) == sorted(xs) = sorted(ys)

C11_OrderInvariant ==
    (call.fn = "combine_hashes" /\ IsPerm(call.args[1], call.args[2]))
        => call.ret[1] = call.ret[2]

(***************************************************************************)
(* C12.  combine_hashes is sensitive to its input: two lists of digests    *)
(* that differ (a member added, removed or altered) give different         *)
(* results, as lists in the order given and as the sorted lists the        *)
(* callers pass; in particular <<a, b>> and <<a, b, c>> do.                *)
(***************************************************************************)
C12_Sensitive ==
    call.fn = "combine_hashes" =>
        /\ call.args[1] # call.args[2] => call.ret[1] # call.ret[2]
        /\ ~IsPerm(call.args[1], call.args[2]) =>
               combine_hashes(sorted(call.args[1]))
                   # combine_hashes(sorted(call.args[2]))

\* combine_hashes returned for <<a, b>> and for <<a, b, c>>, c a new member
C12_Witness ==
    /\ call.fn = "combine_hashes"
    /\ Len(call.args[1]) = 2
    /\ Len(call.args[2]) = 3
    /\ SubSeq(call.args[2], 1, 2) = call.args[1]
    /\ call.args[1][1] # call.args[1][2]
    /\ \A i \in 1..2 : call.args[2][3] # call.args[1][i]
    /\ call.ret[1] # call.ret[2]

(***************************************************************************)
(* C13.  A file under a directory of the tree whose name is in the         *)
(* excluded set is never hashed, never summarised and never a key of the   *)
(* files map, and it contributes to no combined digest: its directory is   *)
(* never processed and never gets a record, and each digest stored is the  *)
(* combination over the walked directories and their files only.           *)
(***************************************************************************)
\* p lies under a directory, below the root, whose name is excluded
UnderExcluded(p) ==
    \E d \in Dirs \ {root_dir} :
        /\ basename(d) \in exclude_dirs
        /\ Parent(p) = d

\* the files and directories outside the excluded directories
KeptFiles(d) == {p \in Paths : Parent(p) = d /\ fs[p] # 0 /\ ~UnderExcluded(p)}

KeptDirs ==
    {d \in Dirs : basename(d) \notin exclude_dirs \/ d = root_dir}

C13_ExclusionCorrect ==
    \A p \in Paths :
        (UnderExcluded(p) /\ fs[p] # 0) =>
            /\ step.key # p
            /\ p \notin summarized /\ Parent(p) \notin summarized
            /\ file_sums[p] = 0
            /\ cache.files[p] = NoEntry /\ disk.cache.files[p] = NoEntry
            /\ directory_summaries[Parent(p)] = 0
            /\ cache.directories[Parent(p)] = NoDirEntry
            /\ disk.cache.directories[Parent(p)] = NoDirEntry
            /\ (step.key \in Dirs /\ ~step.failed /\ ~step.fresh) =>
                   cache.directories[step.key].dir_hash
                       = DirHash(cache,
                                 Restrict(Listing, KeptFiles(step.key)))
            /\ (step.key = CODEBASE /\ ~step.failed /\ ~step.fresh) =>
                   cache.codebase.hash
                       = CodebaseHash(cache,
                             Restrict(WalkOrder,
                                 {d \in KeptDirs : KeptFiles(d) # {}}))

\* a build succeeded on a tree holding a file under .git next to files it
\* documented
C13_Witness ==
    /\ Succeeded
    /\ fs["D/.git/X.py"] # 0 /\ UnderExcluded("D/.git/X.py")
    /\ fs["D/A.py"] # 0 /\ fs["D/sub/C.py"] # 0
    /\ disk.cache.files["D/A.py"] # NoEntry
    /\ Len(summaryCalls) >= 3

(***************************************************************************)
(* C14.  (claim) chunk_text yields exactly one chunk for every text of at  *)
(* most chunk_size tokens, the empty text included.  For the empty text    *)
(* range(0, 0, chunk_size) is empty and chunk_text yields nothing.         *)
(***************************************************************************)
C14_OneChunk ==
    (/\ call.fn = "chunk_text"
     /\ count_tokens(call.args.text) <= call.args.chunk_size)
        => Len(call.ret) = 1

(***************************************************************************)
(* C15.  (claim) The chunks yielded by chunk_text, concatenated in yield   *)
(* order, are the original text, and no chunk holds more than chunk_size   *)
(* tokens.  Each chunk is decoded on its own, so a chunk boundary between  *)
(* the tokens of one character leaves U+FFFD on both sides.                *)
(***************************************************************************)
C15_ChunkCoverage ==
    call.fn = "chunk_text" =>
        /\ ConcatAll(call.ret) = call.args.text
        /\ \A k \in 1..Len(call.ret) :
               count_tokens(call.ret[k]) <= call.args.chunk_size

(***************************************************************************)
(* C16.  summarize_large_text on a text over CHUNK_SIZE tokens that        *)
(* chunk_text splits into n chunks makes n chunk calls and then one        *)
(* reduction call, n + 1 llm.prompt calls with the reduction last; on a    *)
(* text of at most CHUNK_SIZE tokens it makes exactly one call.            *)
(***************************************************************************)
\* the chunks of the text summarize_large_text was called on
SLTChunks == chunk_text(call.args.text, CHUNK_SIZE)

SLTOver == count_tokens(call.args.text) > CHUNK_SIZE

C16_CallStructure ==
    call.fn = "summarize_large_text" =>
        /\ (call.pc = "returned" /\ ~SLTOver) =>
               /\ Len(call.prompts) = 1
               /\ call.prompts[1].kind = "single"
        /\ (call.pc = "returned" /\ SLTOver) =>
               /\ Len(call.prompts) = Len(SLTChunks) + 1
               /\ \A k \in 1..Len(SLTChunks) : call.prompts[k].kind = "chunk"
               /\ call.prompts[Len(SLTChunks) + 1].kind = "combine"
        /\ call.pc = "chunks" =>
               /\ SLTOver
               /\ Len(call.prompts) <= Len(SLTChunks)
               /\ \A k \in 1..Len(call.prompts) : call.prompts[k].kind = "chunk"

\* a text of three chunks was summarised with four calls
C16_Witness ==
    /\ call.fn = "summarize_large_text" /\ call.pc = "returned"
    /\ SLTOver
    /\ Len(SLTChunks) = 3 /\ Len(call.prompts) = 4
    /\ call.prompts[4].kind = "combine"

(***************************************************************************)
(* C17.  The chunk calls are issued in the order of the chunks and the     *)
(* reduction prompt lists the partial summaries in that order; with a      *)
(* summarizer that returns its prompt, the result holds the chunks in the  *)
(* order of the document.                                                  *)
(***************************************************************************)
C17_Ordering ==
    (call.fn = "summarize_large_text" /\ SLTOver) =>
        /\ \A k \in 1..Len(call.prompts) :
               call.prompts[k].kind = "chunk" =>
                   /\ call.prompts[k].idx = k - 1
                   /\ call.prompts[k].body = SLTChunks[k]
        /\ call.pc = "chunks" =>
               \A k \in 1..Len(call.prompts) :
                   /\ Len(call.partial_summaries) = Len(call.prompts)
                   /\ call.partial_summaries[k]
                          = Respond(call.args.llm, call.prompts[k])
        /\ call.pc = "returned" =>
               LET reduction == call.prompts[Len(call.prompts)]
               IN  /\ Len(reduction.parts) = Len(SLTChunks)
                   /\ \A k \in 1..Len(SLTChunks) :
                          reduction.parts[k]
                              = Respond(call.args.llm, call.prompts[k])
                   /\ call.args.llm = "echo" =>
                          /\ call.ret = reduction
                          /\ \A k \in 1..Len(SLTChunks) :
                                 call.ret.parts[k].body = SLTChunks[k]

\* an echoing summarizer reduced a text of at least two different chunks
C17_Witness ==
    /\ call.fn = "summarize_large_text" /\ call.pc = "returned"
    /\ call.args.llm = "echo"
    /\ Len(SLTChunks) >= 2
    /\ SLTChunks[1] # SLTChunks[2]
    /\ call.ret.parts[1].body = SLTChunks[1]
    /\ call.ret.parts[2].body = SLTChunks[2]

(***************************************************************************)
(* C18.  (claim) After every successful build the dir_hash of each         *)
(* directory record is combine(sorted(hash of every file record of the     *)
(* files map whose parent is that directory)), also after files of the     *)
(* directory were deleted between builds.                                  *)
(***************************************************************************)
\* the hashes of the file records of cache c under the keys of the set S
FileHashes(c, S) ==
    LET keys == Restrict(Listing, S)
    IN  [i \in 1..Len(keys) |-> c.files[keys[i]].hash]

\* the file records of cache c whose parent is d
RecordsUnder(c, d) == {p \in Paths : Parent(p) = d /\ c.files[p] # NoEntry}

C18_DirHashOfAllRecords ==
    Succeeded =>
        \A d \in Dirs :
            disk.cache.directories[d] # NoDirEntry =>
                disk.cache.directories[d].dir_hash
                    = combine_hashes(sorted(
                          FileHashes(disk.cache, RecordsUnder(disk.cache, d))))

(***************************************************************************)
(* C18, amended.  After every successful build, each walked directory      *)
(* that holds a .py file has a record whose dir_hash is                    *)
(* combine(sorted(hash of the file record of every .py file now in that    *)
(* directory)); the records of deleted files stay in the files map and are *)
(* not counted.                                                            *)
(***************************************************************************)
C18_DirHashOfCurrentFiles ==
    Succeeded =>
        \A d \in dir_to_files(fs) :
            /\ disk.cache.directories[d] # NoDirEntry
            /\ disk.cache.directories[d].dir_hash
                   = combine_hashes(sorted(
                         FileHashes(disk.cache, PyFiles(fs, d))))

\* a build succeeded after B.py was deleted from D, its record still stored
C18_Witness ==
    /\ Succeeded /\ AfterSuccess
    /\ fsPrev["D/B.py"] # 0 /\ fs["D/B.py"] = 0
    /\ fs["D/A.py"] # 0
    /\ disk.cache.files["D/B.py"] # NoEntry
    /\ disk.cache.directories["D"].dir_hash
           = combine_hashes(<<disk.cache.files["D/A.py"].hash>>)

(***************************************************************************)
(* C19.  (claim) After every successful build the hash of the codebase     *)
(* record is combine(sorted(dir_hash of every record of the directories    *)
(* map)), also after a directory was deleted or lost all its files.        *)
(***************************************************************************)
\* the dir_hash of the directory records of cache c under the keys of S
DirHashes(c, S) ==
    LET keys == Restrict(WalkOrder, S)
    IN  [i \in 1..Len(keys) |-> c.directories[keys[i]].dir_hash]

C19_CodebaseHashOfAllRecords ==
    Succeeded =>
        disk.cache.codebase.hash
            = combine_hashes(sorted(
                  DirHashes(disk.cache,
                      {d \in Dirs : disk.cache.directories[d] # NoDirEntry})))

(***************************************************************************)
(* C19, amended.  After every successful build the hash of the codebase    *)
(* record is combine(sorted(dir_hash of the record of every walked         *)
(* directory that now holds a .py file)); the record of a directory that   *)
(* was deleted or lost all its files stays in the directories map and is   *)
(* not counted.                                                            *)
(***************************************************************************)
C19_CodebaseHashOfCurrentDirs ==
    Succeeded =>
        disk.cache.codebase.hash
            = combine_hashes(sorted(DirHashes(disk.cache, dir_to_files(fs))))

\* a build succeeded after D/sub lost its only file, its record still stored
C19_Witness ==
    /\ Succeeded /\ AfterSuccess
    /\ fsPrev["D/sub/C.py"] # 0 /\ fs["D/sub/C.py"] = 0
    /\ dir_to_files(fs) = {"D"}
    /\ disk.cache.directories["D/sub"] # NoDirEntry
    /\ disk.cache.codebase.hash
           = combine_hashes(<<disk.cache.directories["D"].dir_hash>>)

IsUnder(target, base) ==
    Len(base) <= Len(target) /\ SubSeq(target, 1, Len(base)) = base

ToolFns == {"write_file", "delete_file", "read_file", "rename_move_file"}

C21_ConfinedToRoot ==
    (/\ call.fn \in ToolFns
     /\ \E target \in call.targets : ~IsUnder(target, project_root))
        => /\ call.ret.kind = "error"
           /\ call.ret.fsys = call.args.fsys

(***************************************************************************)
(* C22.  Bottom-up order.  When the build computes the digest of a         *)
(* directory, get_file_summary has returned in this build for every file   *)
(* of the directory and the record of each holds the digest of the file;   *)
(* when it computes the digest of the codebase, every directory of the     *)
(* walk has been processed and has its record.                             *)
(***************************************************************************)
\* the step being taken computes the digest of a directory, of the codebase
DirStep == pc = "loop" /\ step'.key \in Dirs

CodebaseStep == pc = "loop" /\ step'.key = CODEBASE

C22_BottomUp ==
    [][ /\ DirStep =>
             \A p \in PyFiles(fs, step'.key) :
                 /\ file_sums[p] # 0
                 /\ cache.files[p] # NoEntry
                 /\ cache.files[p].hash = compute_sha256(fs[p])
        /\ CodebaseStep =>
             \A d \in dir_to_files(fs) :
                 /\ directory_summaries[d] # 0
                 /\ cache.directories[d] # NoDirEntry
                 /\ \A p \in PyFiles(fs, d) :
                        cache.files[p].hash = compute_sha256(fs[p])
      ]_vars

\* a build over the two directories went files of D, D, file of D/sub,
\* D/sub, codebase
C22_Witness ==
    /\ Succeeded
    /\ summaryCalls
           = <<"D/A.py", "D/B.py", "D", "D/sub/C.py", "D/sub", CODEBASE>>

(***************************************************************************)
(* C23.  A stale or absent record is never reused: a step that finds no    *)
(* record, or a stored digest other than the digest it computed, asks the  *)
(* Summarizer; when the Summarizer answers, the step returns the new       *)
(* summary and stores it with the digest computed.                         *)
(***************************************************************************)
\* the inner loop is at file f and the record of f does not hold its digest
StaleFile(f) ==
    /\ f # ""
    /\ cache.files[f].hash # compute_sha256(fs[f])

\* the outer loop is at directory d, past its files, and the record of d
\* does not hold the digest of their hashes
StaleDir(f, d) ==
    /\ d # "" /\ f = ""
    /\ cache.directories[d].dir_hash
           # combine_hashes(sorted(FileHashes(cache, PyFiles(fs, d))))

\* the loops are over and the codebase record does not hold the digest of
\* the directory hashes
StaleCodebase(d) ==
    /\ d = ""
    /\ cache.codebase.hash
           # combine_hashes(sorted(DirHashes(cache, dir_to_files(fs))))

\* the step asks the Summarizer for entity e and, unless a call raises,
\* returns the answer of this build
Regenerates(e) ==
    /\ summaryCalls' = Append(summaryCalls, e)
    /\ llmCalls' > llmCalls
    /\ step'.key = e /\ ~step'.fresh
    /\ ~step'.failed =>
           /\ step'.ret = Answer(runs)
           /\ step'.ret # Rec(cache, e).summary
           /\ Rec(cache', e).summary = Answer(runs)

C23_StaleNeverReused ==
    [][(pc = "loop" /\ DigestComputed) =>
        LET f == CurFile
            d == CurDir
        IN
        /\ StaleFile(f) =>
             /\ Regenerates(f)
             /\ ~step'.failed =>
                    /\ cache'.files[f].hash = compute_sha256(fs[f])
                    /\ file_sums'[f] = Answer(runs)
        /\ StaleDir(f, d) =>
             /\ Regenerates(d)
             /\ ~step'.failed =>
                    /\ cache'.directories[d].dir_hash
                           = combine_hashes(sorted(
                                 FileHashes(cache, PyFiles(fs, d))))
                    /\ directory_summaries'[d] = Answer(runs)
        /\ StaleCodebase(d) =>
             /\ Regenerates(CODEBASE)
             /\ ~step'.failed =>
                    cache'.codebase.hash
                        = combine_hashes(sorted(
                              DirHashes(cache, dir_to_files(fs))))
      ]_vars

\* the second build regenerated a file whose stored digest was stale
C23_Witness ==
    /\ pc = "loop" /\ runs = 2
    /\ step.key \in Paths /\ ~step.fresh /\ ~step.failed
    /\ Loaded.files[step.key] # NoEntry
    /\ Loaded.files[step.key].hash # cache.files[step.key].hash
    /\ cache.files[step.key].summary = 2 /\ step.old = 1

(***************************************************************************)
(* C24.  (claim) Parse failure is recoverable: when get_file_summary       *)
(* regenerates, with use_ast, a file that ast.parse does not turn into a   *)
(* tree, it summarises the raw text, returns, and stores the record as for *)
(* a file that parses.  ast_parse_file catches SyntaxError only.           *)
(***************************************************************************)
\* get_file_summary was called with use_ast on a file that does not parse
\* and whose record, if any, is stale
RegeneratesUnparsable ==
    /\ call.fn = "get_file_summary"
    /\ call.args.use_ast
    /\ ast_parse_file(call.args.content) # "info"
    /\ call.args.cached_entry.hash # compute_sha256(call.args.content)

C24_ParseFailureRecovered ==
    RegeneratesUnparsable =>
        /\ call.ret.outcome = "returned"
        /\ call.ret.raw
        /\ call.ret.entry = [hash |-> compute_sha256(call.args.content),
                             summary |-> call.ret.summary]

\* C25: the text submitted to the Summarizer for a directory is built from
\* the summaries of that directory's files only and never contains raw file
\* content.
C25_SummariesOnly ==
    call.fn = "summarize_directory" =>
        \A i \in 1..Len(call.ret.submitted) :
            /\ call.ret.submitted[i].path = DirFiles[i]
            /\ call.ret.submitted[i].body =
                   <<"summary", FileSummaryOf(call.args.tree[DirFiles[i]])>>

(***************************************************************************)
(* C26.  Directory digests cover immediate file children only: when, after *)
(* a successful build, only the file of the nested directory D/sub is      *)
(* edited, the next successful build changes the records of that file, of  *)
(* D/sub and of the codebase, and leaves the record of the enclosing       *)
(* directory D as it was (same digest, same summary, no summary asked for  *)
(* D).                                                                     *)
(***************************************************************************)
C26_NestedEditLeavesParent ==
    (Succeeded /\ AfterSuccess /\ OneEdited("D/sub/C.py")) =>
        /\ disk.cache.files["D/sub/C.py"] # disk0.cache.files["D/sub/C.py"]
        /\ disk.cache.directories["D/sub"] # disk0.cache.directories["D/sub"]
        /\ disk.cache.codebase # disk0.cache.codebase
        /\ {"D/sub/C.py", "D/sub", CODEBASE} \subseteq summarized
        /\ disk.cache.directories["D"] = disk0.cache.directories["D"]
        /\ "D" \notin summarized

C26_Witness ==
    /\ Succeeded /\ AfterSuccess /\ OneEdited("D/sub/C.py")
    /\ fs["D/A.py"] # 0
    /\ disk.cache.directories["D"] # NoDirEntry
    /\ disk.cache.directories["D"] = disk0.cache.directories["D"]
    /\ disk.cache.directories["D/sub"].dir_hash
           # disk0.cache.directories["D/sub"].dir_hash

(***************************************************************************)
(* C27.  No run removes a key from the files map or the directories map of *)
(* the persisted cache: every step of a build leaves in the cache file     *)
(* every file key and every directory key it held, also the keys of files  *)
(* and directories deleted from the source tree.                           *)
(***************************************************************************)
FileKeys(d) == {p \in Paths : d.cache.files[p] # NoEntry}

DirKeys(d) == {x \in Dirs : d.cache.directories[x] # NoDirEntry}

\* a step of build_documentation, as opposed to a step of its environment
BuildStep == pc # "idle" \/ pc' # "idle"

C27_KeysOnlyGrow ==
    [][BuildStep =>
          /\ FileKeys(disk) \subseteq FileKeys(disk')
          /\ DirKeys(disk) \subseteq DirKeys(disk')]_vars

\* a build has saved the cache after the only file of D/sub was deleted
C27_Witness ==
    /\ Succeeded /\ AfterSuccess
    /\ disk # disk0
    /\ fs["D/sub/C.py"] = 0 /\ fsPrev["D/sub/C.py"] # 0
    /\ "D/sub/C.py" \in FileKeys(disk)
    /\ "D/sub" \in DirKeys(disk)

(***************************************************************************)
(* C28.  No retry: the step in which an llm.prompt call raises makes the   *)
(* calls up to the failed one and no call after it, ends the build with an *)
(* error and saves nothing; the only step that follows is the return to    *)
(* the caller of build_documentation.                                      *)
(***************************************************************************)
C28_NoRetry ==
    [][/\ (pc = "loop" /\ step'.failed /\ step'.calls > 0) =>
              /\ pc' = "done" /\ outcome' = "error"
              /\ llmCalls' = llmCalls + step'.calls
              /\ disk' = disk
       /\ LLMFailed =>
              /\ pc = "done" /\ outcome = "error"
              /\ pc' = "idle" /\ llmCalls' = 0 /\ disk' = disk
              /\ doc' = doc]_vars

\* the second prompt of a chunked file raised after earlier entities of the
\* build had been summarized
C28_Witness ==
    /\ LLMFailed /\ pc = "done" /\ outcome = "error"
    /\ step.key \in Paths /\ step.calls = 2 /\ chunked
    /\ llmCalls > 2

(***************************************************************************)
(* C29.  Every build over a finite tree terminates, returning the codebase *)
(* summary or raising an error, provided every llm.prompt call returns or  *)
(* raises; the build comes to each file, to each directory and to the      *)
(* codebase step at most once.                                             *)
(***************************************************************************)
C29_Terminates ==
    /\ [](\A e \in Paths \cup Dirs \cup {CODEBASE} : visits[e] <= 1)
    /\ (pc = "loop") ~> (pc = "done" /\ outcome \in {"ok", "error"})

\* a build over the three files of the two walked directories has returned
C29_Witness ==
    /\ Succeeded
    /\ \A p \in Editable : fs[p] # 0
    /\ \A e \in Editable \cup {"D", "D/sub", CODEBASE} : visits[e] = 1
    /\ \A e \in {"D/.git", "D/.git/X.py"} : visits[e] = 0

(***************************************************************************)
(* C30.  Concurrent runs lose no update: when two builds interleave on the *)
(* same cache file, the cache file after both have returned is the one     *)
(* that the two builds leave when they run one after the other, in one of  *)
(* the two orders.                                                         *)
(***************************************************************************)
\* the cache file after process a has run to its end and then process b
OneAfterTheOther(a, b) ==
    save_cache(Built(Built(load_cache(NoFile), fs, procs[a].root, a),
                     fs, procs[b].root, b))

BothReturned == \A r \in Procs : procs[r].pc = "returned"

C30_NoLostUpdate ==
    BothReturned => disk \in {OneAfterTheOther(1, 2), OneAfterTheOther(2, 1)}

(***************************************************************************)
(* C31.  Directory summaries stay consistent with their inputs: whenever   *)
(* the summary of a file of directory d is regenerated in a successful     *)
(* build, the summary of d is regenerated in that build, so every stored   *)
(* directory summary was produced from the file summaries stored for its   *)
(* files.                                                                  *)
(***************************************************************************)
C31_DirFollowsFiles ==
    Succeeded =>
        \A p \in Paths : p \in summarized => Parent(p) \in summarized

(***************************************************************************)
(* C32.  The codebase summary stays consistent with its inputs: whenever   *)
(* the summary of a directory is regenerated in a successful build, the    *)
(* codebase summary is regenerated in that build.                          *)
(***************************************************************************)
C32_CodebaseFollowsDirs ==
    Succeeded =>
        \A d \in Dirs : d \in summarized => CODEBASE \in summarized

(***************************************************************************)
(* C33.  update_docstring_in_file skips unchanged code: a call on a file   *)
(* that an earlier call has updated, and that was not edited since, asks   *)
(* the LLM nothing, does not rewrite the file and leaves hash_db as it     *)
(* was.                                                                    *)
(***************************************************************************)
\* the last call of update_docstring_in_file found an entry for its file
\* in hash_db: entries are made by successful updates only
UpdatedBefore ==
    /\ ad.pc # "off"
    /\ ad.last.file # ""
    /\ ad.last.hash_db[ad.last.file] # NoHash

C33_SkipsUnchanged ==
    UpdatedBefore =>
        /\ ~ad.last.called
        /\ ad.files[ad.last.file] = ad.last.content
        /\ ad.hash_db = ad.last.hash_db
        /\ ad.hash_file = ad.last.hash_db

\* the call of the second run on a file in which a double quote stays in
\* front of the code when the docstring is taken off
C33_Witness ==
    /\ UpdatedBefore
    /\ ad.last.file = "D/A.py" /\ ad.run = 2
    /\ MatchEnd(ad.files["D/A.py"]) # 0
    /\ Head(extract_code_without_top_level_docstring(ad.files["D/A.py"])) = "q"
    /\ ~ad.last.called

(***************************************************************************)
(* C34.  auto_doc with update_file_docstrings=True is idempotent across    *)
(* runs: the docstrings of all files are rewritten before a file digest is *)
(* computed for the summary cache, so a run that follows a successful run, *)
(* both with update_file_docstrings=True and no file edited in between,    *)
(* makes no LLM call in the docstring updater and none in the              *)
(* documentation engine.                                                   *)
(***************************************************************************)
SecondAutoDoc ==
    /\ ad.pc = "idle" /\ ad.outcome = "ok"
    /\ ad.flag /\ ad.prevFlag /\ ad.prevOk

C34_AutoDocIdempotent ==
    SecondAutoDoc => (ad.updCalls = 0 /\ ad.engCalls = 0 /\ ad.writes = 0)

\* the second run on a project whose two files got a docstring in the first
C34_Witness ==
    /\ SecondAutoDoc /\ ad.run = 2
    /\ \A f \in DocFileSet :
           /\ MatchEnd(ad.files[f]) # 0
           /\ ad.hash_file[f] # NoHash
           /\ ad.summary_cache.files[f].summary = Answer(1)
    /\ ad.updCalls = 0 /\ ad.engCalls = 0

(***************************************************************************)
(* C37.  DocstringUpdater failure atomicity: when the LLM call for a file  *)
(* fails, the file and hash_db[file] are as they were, in memory and in    *)
(* the cache file; and hash_db[file] is set and saved only by a call that  *)
(* rewrote the file with the new docstring.                                *)
(***************************************************************************)
C37_FailureAtomic ==
    [][/\ (ad.pc # "off" /\ ad'.last.failed) =>
              /\ ad'.files = ad.files
              /\ ad'.hash_db = ad.hash_db
              /\ ad'.hash_file = ad.hash_file
       /\ (ad.pc = "docstrings" /\ (ad'.hash_db # ad.hash_db
                                    \/ ad'.hash_file # ad.hash_file)) =>
              \E f \in DocFileSet :
                  /\ ad'.last.file = f /\ ad'.last.called /\ ~ad'.last.failed
                  /\ MatchEnd(ad'.files[f]) # 0
                  /\ ad'.hash_db[f] = new_code_hash(ad'.files[f])
                  /\ ad'.hash_file = ad'.hash_db
                  /\ \A g \in DocFileSet \ {f} :
                         /\ ad'.hash_db[g] = ad.hash_db[g]
                         /\ ad'.files[g] = ad.files[g]]_vars

\* the LLM call for B.py has failed after A.py was updated in the same run
C37_Witness ==
    /\ ad.pc = "idle" /\ ad.outcome = "error"
    /\ ad.last.failed /\ ad.last.file = "D/B.py"
    /\ ad.hash_file["D/A.py"] # NoHash
    /\ ad.hash_file["D/B.py"] = NoHash
    /\ ad.files["D/B.py"] = ad.last.content

(***************************************************************************)
(* C35.  OpenAIClient.run_thread eventually returns for every outcome of   *)
(* the run: also when the run ends in a status other than completed, or    *)
(* when the tool loop is left because no tool produced an output.          *)
(***************************************************************************)
C35_RunThreadReturns == <>(call.pc = "returned")

(***************************************************************************)
(* C36.  Cache lookups during a run never hit a missing key: when          *)
(* summarize_directory(d) is about to run, every file of d has a file      *)
(* record whose hash is the digest of the file, and when the codebase      *)
(* digest is about to be computed, every directory of the walk has a       *)
(* directory record.                                                       *)
(***************************************************************************)
AtDirectory == pc = "loop" /\ CurDir # "" /\ CurFile = ""

AtCodebase == pc = "loop" /\ CurDir = ""

C36_NoMissingKey ==
    /\ AtDirectory =>
          \A p \in PyFiles(fs, CurDir) :
              /\ cache.files[p] # NoEntry
              /\ cache.files[p].hash = compute_sha256(fs[p])
    /\ AtCodebase =>
          \A d \in dir_to_files(fs) : cache.directories[d] # NoDirEntry

\* an incremental build has come to the codebase digest after it reused the
\* summary of one directory and regenerated that of another
C36_Witness ==
    /\ AtCodebase
    /\ disk0 # NoFile
    /\ step.key \in Dirs
    /\ step.fresh
    /\ \E d \in dir_to_files(fs) : d \in summarized

====
